---- MODULE Spec2Model ----
(***************************************************************************)
(* A model of the conversation history store (core/history/manager.py),    *)
(* the project store (core/tools.py, bot/projects.py) and the message      *)
(* orchestrator process_message (bot/handlers.py).                         *)
(*                                                                         *)
(* Python values are represented as follows.                               *)
(*   - a uuid4 string is a positive integer drawn from a counter; None and *)
(*     the empty string (both falsy ids) are NoneId;                       *)
(*   - a dict is a function whose DOMAIN is its key set;                   *)
(*   - a str is a TLA+ string where the store only passes it along, and  *)
(*     a record [type |-> "str", ...] naming its format and its parts      *)
(*     where the orchestrator builds or inspects it;                       *)
(*   - None is the record [type |-> "NoneType"];                           *)
(*   - a MessageRole member is the string "MessageRole.X", its .value the  *)
(*     lower-case string the JSON file and the model API carry.            *)
(***************************************************************************)
EXTENDS Integers, Sequences, FiniteSets, TLC

(* ------------------------------ bounds -------------------------------- *)

\* conversations the uuid counter hands out in a run
MaxConvs == 2

\* add_message calls accepted over all conversations in a run of the
\* history store
MaxMsgs == 2

\* projects the uuid counter hands out in a run
MaxProjects == 3

\* messages process_message is called with in a run
MaxTurns == 2

\* messages in a list given to limit_messages_by_tokens
MaxInput == 3

(* --------------------------- input domains ---------------------------- *)

Users == {"u1", "u2"}

Contents == {"hello", "hi"}

NoneId == 0

ConvIds == 1 .. MaxConvs

ProjectIds == 1 .. MaxProjects

Managers == {"A", "B"}

None == [type |-> "NoneType"]

VARIABLES
    cache,              \* HistoryManager._active_conversations, per instance
    disk,               \* history_dir: conversation id -> JSON document
    nextConv,           \* next uuid handed to create_conversation
    calls,              \* the add_message calls made on each live conversation
                        \* (forgotten when the conversation is deleted)
    clock,              \* datetime.now(): the time the next message is stamped
    PROJECTS,           \* core/tools.py PROJECTS
    ACTIVE_PROJECT_ID,  \* core/tools.py ACTIVE_PROJECT_ID
    BOT_PROJECTS,       \* bot/projects.py PROJECTS
    BOT_ACTIVE_PROJECT_ID, \* bot/projects.py ACTIVE_PROJECT_ID
    nextProject,        \* next uuid handed to create_project
    pret,               \* what the last project-store call returned
    pc,                 \* process_message: where the running call stands
    local,              \* process_message: its arguments and local variables
    reply,              \* process_message: the value it returns
    apiCalls,           \* model API calls made by the running call
    handled,            \* tool-call ids the running call has started to handle
    executed,           \* tool-call ids whose callable the running call invoked
    turns,              \* process_message calls started so far
    registry_tools,     \* ToolRegistry._tools: tool name -> registered callable
    rret,               \* what the last ToolRegistry call returned or raised
    user_conversations, \* TelegramBot._user_conversations: user id -> conversation id
    update,             \* the update the chat adapter is handling
    sret,               \* what the last OpenAIMessageService call returned or raised
    lret                \* the last limit_messages_by_tokens call and its result

histVars == <<cache, disk, nextConv, calls, clock>>

projVars == <<PROJECTS, ACTIVE_PROJECT_ID, BOT_PROJECTS, BOT_ACTIVE_PROJECT_ID,
              nextProject, pret>>

turnVars == <<pc, local, reply, apiCalls, handled, executed, turns>>

registryVars == <<registry_tools, rret>>

adapterVars == <<user_conversations, update>>

serviceVars == <<sret, lret>>

otherVars == <<registryVars, adapterVars, serviceVars>>

(* ------------------------------ dicts --------------------------------- *)

EmptyDict == [k \in {} |-> None]

DictPut(d, k, v) == [x \in (DOMAIN d) \cup {k} |-> IF x = k THEN v ELSE d[x]]

DictDel(d, k) == [x \in (DOMAIN d) \ {k} |-> d[x]]

(* --------------------------- MessageRole ------------------------------ *)

RoleValues == {"system", "user", "assistant", "tool"}

RoleMembers == {"MessageRole.SYSTEM", "MessageRole.USER",
                "MessageRole.ASSISTANT", "MessageRole.TOOL"}

\* MessageRole(value): the member whose value is the string
MessageRole(v) ==
    CASE v = "system" -> "MessageRole.SYSTEM"
      [] v = "user" -> "MessageRole.USER"
      [] v = "assistant" -> "MessageRole.ASSISTANT"
      [] v = "tool" -> "MessageRole.TOOL"
      [] OTHER -> v

\* member.value
RoleValue(r) ==
    CASE r = "MessageRole.SYSTEM" -> "system"
      [] r = "MessageRole.USER" -> "user"
      [] r = "MessageRole.ASSISTANT" -> "assistant"
      [] r = "MessageRole.TOOL" -> "tool"
      [] OTHER -> r

(* ------------------ Conversation, Message, JSON file ------------------ *)

\* datetime.isoformat(), the text written to the file
isoformat(t) == [iso |-> t]

\* datetime.fromisoformat(text)
fromisoformat(text) == text.iso

\* Message(role=..., content=..., metadata=...): the timestamp is the time
\* of construction
Message(role, content, metadata) ==
    [role |-> role, content |-> content, metadata |-> metadata, timestamp |-> clock]

Conversation(id, user_id) ==
    [id |-> id, user_id |-> user_id, messages |-> <<>>]

\* conversation.model_dump(mode="json"): every role becomes its value
model_dump(conv) ==
    [id |-> conv.id,
     user_id |-> conv.user_id,
     messages |-> [i \in 1 .. Len(conv.messages) |->
                     [role |-> RoleValue(conv.messages[i].role),
                      content |-> conv.messages[i].content,
                      metadata |-> conv.messages[i].metadata,
                      timestamp |-> isoformat(conv.messages[i].timestamp)]]]

\* a load that keeps the role strings of the file as they are
model_validate_raw_roles(data) ==
    [id |-> data.id,
     user_id |-> data.user_id,
     messages |-> [i \in 1 .. Len(data.messages) |->
                     [role |-> data.messages[i].role,
                      content |-> data.messages[i].content,
                      metadata |-> data.messages[i].metadata,
                      timestamp |-> fromisoformat(data.messages[i].timestamp)]]]

\* Conversation.model_validate(data): every role string becomes a member
model_validate(data) ==
    [id |-> data.id,
     user_id |-> data.user_id,
     messages |-> [i \in 1 .. Len(data.messages) |->
                     [role |-> MessageRole(data.messages[i].role),
                      content |-> data.messages[i].content,
                      metadata |-> data.messages[i].metadata,
                      timestamp |-> fromisoformat(data.messages[i].timestamp)]]]

(* --------------------------- HistoryManager --------------------------- *)

\* a save that writes the id and the user id and leaves the messages out
SavedDisk_without_messages(d, conv) ==
    DictPut(d, conv.id, model_dump(Conversation(conv.id, conv.user_id)))

\* _save_conversation: the file named by the id is rewritten from the object
SavedDisk(d, conv) == DictPut(d, conv.id, model_dump(conv))

\* get_conversation, the load from disk: the file's document, validated
LoadConversation(d, cid) == model_validate(d[cid])

\* a file whose text is not JSON, or not the JSON of a Conversation
Malformed == [type |-> "malformed"]

\* json.load and model_validate go through without raising
Loads(d, cid) == d[cid] # Malformed

\* a get_conversation that never puts what it loads into the cache
CacheAfterGet_uncached(m, cid) == cache[m]

\* a get_conversation that reads the file even when the cache holds the id
CacheAfterGet_reread(m, cid) ==
    IF cid \in DOMAIN disk /\ Loads(disk, cid)
    THEN DictPut(cache[m], cid, LoadConversation(disk, cid))
    ELSE cache[m]

\* get_conversation, the cache it leaves: a hit leaves it alone, a miss
\* loads the file when there is one and it loads without raising
CacheAfterGet(m, cid) ==
    IF cid \in DOMAIN cache[m] THEN cache[m]
    ELSE IF cid \in DOMAIN disk /\ Loads(disk, cid)
         THEN DictPut(cache[m], cid, LoadConversation(disk, cid))
         ELSE cache[m]

\* get_conversation, the value it returns
GetConversationResult(m, cid) ==
    IF cid \in DOMAIN CacheAfterGet(m, cid)
    THEN CacheAfterGet(m, cid)[cid]
    ELSE None

\* get_messages, the list it returns
GetMessagesResult(m, cid) ==
    IF cid \in DOMAIN CacheAfterGet(m, cid)
    THEN LET msgs == CacheAfterGet(m, cid)[cid].messages
         IN  [i \in 1 .. Len(msgs) |->
                [role |-> RoleValue(msgs[i].role), content |-> msgs[i].content]]
    ELSE <<>>

\* the role add_message stores: a str is converted, a member is kept
StoredRole(role) == IF role \in RoleValues THEN MessageRole(role) ELSE role

\* a store that writes the new message over the last one
AppendedOverLast(conv, role, content, metadata) ==
    [conv EXCEPT !.messages =
        IF Len(@) = 0
        THEN <<Message(StoredRole(role), content, metadata)>>
        ELSE [@ EXCEPT ![Len(@)] = Message(StoredRole(role), content, metadata)]]

\* a store that inserts the new message at the head of the list
AppendedAtHead(conv, role, content, metadata) ==
    [conv EXCEPT !.messages =
        <<Message(StoredRole(role), content, metadata)>> \o @]

\* add_message, the conversation object after the append
Appended(conv, role, content, metadata) ==
    [conv EXCEPT !.messages =
        Append(@, Message(StoredRole(role), content, metadata))]

\* an add_message that starts a conversation under an id it does not know
add_message_upsert(m, cid, role, content, metadata) ==
    LET known == cid \in DOMAIN CacheAfterGet(m, cid)
        base == IF known THEN CacheAfterGet(m, cid)[cid] ELSE Conversation(cid, "")
        conv == Appended(base, role, content, metadata)
    IN  /\ cache' = [cache EXCEPT ![m] = DictPut(CacheAfterGet(m, cid), cid, conv)]
        /\ disk' = SavedDisk(disk, conv)

\* add_message: an unknown id is logged and dropped; otherwise the message
\* is appended to the cached object and the file rewritten
add_message(m, cid, role, content, metadata) ==
    IF cid \in DOMAIN CacheAfterGet(m, cid)
    THEN LET conv == Appended(CacheAfterGet(m, cid)[cid], role, content, metadata)
         IN  /\ cache' = [cache EXCEPT ![m] = DictPut(CacheAfterGet(m, cid), cid, conv)]
             /\ disk' = SavedDisk(disk, conv)
    ELSE /\ cache' = [cache EXCEPT ![m] = CacheAfterGet(m, cid)]
         /\ disk' = disk

\* create_conversation: a fresh id, an empty conversation, cached and saved
create_conversation(m, user_id) ==
    /\ cache' = [cache EXCEPT ![m] = DictPut(@, nextConv, Conversation(nextConv, user_id))]
    /\ disk' = SavedDisk(disk, Conversation(nextConv, user_id))
    /\ nextConv' = nextConv + 1

\* a delete that removes the file and leaves the cache entry
CacheAfterDelete_kept(m, cid) == cache[m]

\* delete_conversation, the cache it leaves
CacheAfterDelete(m, cid) == DictDel(cache[m], cid)

\* a delete that empties the directory
DiskAfterDelete_all(cid) == EmptyDict

\* delete_conversation, the directory it leaves
DiskAfterDelete(cid) == DictDel(disk, cid)

\* delete_conversation, the value it returns
DeleteResult(cid) == cid \in DOMAIN disk

(* ---------------------- list_conversations ---------------------------- *)

\* list_conversations() without a user id; `if user_id and ...` does not
\* tell an empty string from it
NoUser == ""

\* os.listdir(history_dir): the files in an order the system chooses
Listdirs ==
    {scan \in [1 .. Cardinality(DOMAIN disk) -> DOMAIN disk] :
        \A i, j \in DOMAIN scan : i # j => scan[i] # scan[j]}

\* the values datetime.now() returns during one scan, one per file read:
\* the clock stands still or moves on between reads
Nows == {[i \in 1 .. MaxConvs + 1 |-> clock], [i \in 1 .. MaxConvs + 1 |-> clock + i]}

\* a filter that lets every file through
Skipped_never(user_id, conversation_data) == FALSE

\* manager.py:180: the file is skipped when a user id is given and differs
Skipped(user_id, conversation_data) ==
    user_id # NoUser /\ conversation_data.user_id # user_id

\* manager.py:184-194: the summary of one file, read at time now
ConversationSummary(conversation_data, now) ==
    LET messages == conversation_data.messages
    IN  [id |-> conversation_data.id,
         user_id |-> conversation_data.user_id,
         message_count |-> Len(messages),
         first_message_at |-> IF Len(messages) > 0
                              THEN fromisoformat(messages[1].timestamp) ELSE now,
         last_message_at |-> IF Len(messages) > 0
                             THEN fromisoformat(messages[Len(messages)].timestamp)
                             ELSE now]

\* manager.py:172-199: the summaries appended while scanning, in scan order
RECURSIVE Scanned(_, _, _, _)
Scanned(user_id, scan, nows, n) ==
    IF n = 0 THEN <<>>
    ELSE IF Skipped(user_id, disk[scan[n]])
         THEN Scanned(user_id, scan, nows, n - 1)
         ELSE Append(Scanned(user_id, scan, nows, n - 1),
                     ConversationSummary(disk[scan[n]], nows[n]))

\* a place for x in a list sorted oldest first
InsertedAscending(sorted, x) ==
    LET k == Cardinality({i \in DOMAIN sorted :
                            sorted[i].last_message_at <= x.last_message_at})
    IN  SubSeq(sorted, 1, k) \o <<x>> \o SubSeq(sorted, k + 1, Len(sorted))

\* list.sort(key=last_message_at, reverse=True), one insertion: x goes
\* behind every summary that is as recent or more recent
Inserted(sorted, x) ==
    LET k == Cardinality({i \in DOMAIN sorted :
                            sorted[i].last_message_at >= x.last_message_at})
    IN  SubSeq(sorted, 1, k) \o <<x>> \o SubSeq(sorted, k + 1, Len(sorted))

\* manager.py:202: the stable sort, newest last message first
RECURSIVE SortedByLastMessage(_, _)
SortedByLastMessage(summaries, n) ==
    IF n = 0 THEN <<>>
    ELSE Inserted(SortedByLastMessage(summaries, n - 1), summaries[n])

\* list_conversations(user_id), the list it returns for one scan
list_conversations(user_id, scan, nows) ==
    LET conversations == Scanned(user_id, scan, nows, Len(scan))
    IN  SortedByLastMessage(conversations, Len(conversations))

(* ------------------- the history store's operations ------------------- *)

\* the (role, content) pairs callers pass: the role a str or a member
AddArgs == {<<"user", "hello">>, <<"MessageRole.SYSTEM", "hi">>}

TotalMsgs == LET n[S \in SUBSET ConvIds] ==
                     IF S = {} THEN 0
                     ELSE LET c == CHOOSE x \in S : TRUE
                          IN  Len(calls[c]) + n[S \ {c}]
             IN  n[ConvIds]

\* the conversations a store can reach: cached or on disk
Live(m) == (DOMAIN cache[m]) \cup (DOMAIN disk)

CreateConversation(m, user_id) ==
    /\ nextConv <= MaxConvs
    /\ create_conversation(m, user_id)
    /\ UNCHANGED <<calls, clock>>

\* an add_message call and the record of it
HistoryAdd(m, cid, role, content, metadata) ==
    /\ add_message(m, cid, role, content, metadata)
    /\ calls' = IF cid \in DOMAIN CacheAfterGet(m, cid)
                THEN [calls EXCEPT ![cid] =
                        Append(@, [role |-> RoleValue(StoredRole(role)),
                                   content |-> content])]
                ELSE calls
    /\ clock' = IF cid \in DOMAIN CacheAfterGet(m, cid) THEN clock + 1 ELSE clock
    /\ UNCHANGED nextConv

AddMessage(m, cid, role, content) ==
    /\ clock <= MaxMsgs
    /\ HistoryAdd(m, cid, role, content, EmptyDict)

GetConversation(m, cid) ==
    /\ cache' = [cache EXCEPT ![m] = CacheAfterGet(m, cid)]
    /\ UNCHANGED <<disk, nextConv, calls, clock>>

GetMessages(m, cid) ==
    /\ cache' = [cache EXCEPT ![m] = CacheAfterGet(m, cid)]
    /\ UNCHANGED <<disk, nextConv, calls, clock>>

DeleteConversation(m, cid) ==
    /\ cache' = [cache EXCEPT ![m] = CacheAfterDelete(m, cid)]
    /\ disk' = DiskAfterDelete(cid)
    /\ calls' = [calls EXCEPT ![cid] = <<>>]
    /\ UNCHANGED <<nextConv, clock>>

\* list_conversations reads the files and changes nothing
ListConversations(m, user_id) ==
    /\ user_id \in Users \cup {NoUser}
    /\ UNCHANGED histVars

\* something other than the store leaves a file that does not load under
\* the id: a torn write, an edit by hand
Corrupt(cid) ==
    /\ disk' = DictPut(disk, cid, Malformed)
    /\ UNCHANGED <<cache, nextConv, calls, clock>>

\* HistoryManager.__init__ on the same directory: the cache starts empty
NewHistoryManager(m) ==
    /\ cache[m] # EmptyDict
    /\ cache' = [cache EXCEPT ![m] = EmptyDict]
    /\ UNCHANGED <<disk, nextConv, calls, clock>>

InitHistory ==
    /\ cache = [m \in Managers |-> EmptyDict]
    /\ disk = EmptyDict
    /\ nextConv = 1
    /\ calls = [c \in ConvIds |-> <<>>]
    /\ clock = 1

(* ------------------------ project store: values ----------------------- *)

Names == {"N1", "N2"}

Descriptions == {"D1"}

\* the ids of a PROJECTS dict in insertion order: ids are handed out in
\* increasing order and never reused, so this is the increasing order
RECURSIVE InsertionOrder(_)
InsertionOrder(S) ==
    IF S = {} THEN <<>>
    ELSE LET least == CHOOSE x \in S : \A y \in S : x <= y
         IN  <<least>> \o InsertionOrder(S \ {least})

\* f"Project '{name}' (ID: {id}) has been deleted"
DeletedText(name, id) == [type |-> "str", kind |-> "deleted", name |-> name, id |-> id]

\* f"Switched to project '{name}' (ID: {id})"
SwitchedText(name, id) == [type |-> "str", kind |-> "switched", name |-> name, id |-> id]

\* str(uuid.uuid4())
IdText(id) == [type |-> "str", kind |-> "id", id |-> id]

\* the dict get_project_details builds
DetailsDict(id, project, is_active) ==
    [type |-> "dict", id |-> id, name |-> project.name,
     description |-> project.description, is_active |-> is_active]

\* "\n".join of one "ID: ...(ACTIVE)\nName: ...\nDescription: ...\n" per project
ListText(projects, active) ==
    [type |-> "str", kind |-> "list",
     items |-> [i \in 1 .. Cardinality(DOMAIN projects) |->
                  LET id == InsertionOrder(DOMAIN projects)[i]
                  IN  [id |-> id, active_marker |-> (id = active),
                       name |-> projects[id].name,
                       description |-> projects[id].description]]]

(* ----------------------- project store: core/tools.py ----------------- *)

list_projects ==
    IF DOMAIN PROJECTS = {} THEN None ELSE ListText(PROJECTS, ACTIVE_PROJECT_ID)

\* a delete that returns its message and leaves the record in the dict
delete_project_Projects_kept(project_id) == PROJECTS

delete_project_Projects(project_id) ==
    IF project_id \notin DOMAIN PROJECTS THEN PROJECTS
    ELSE DictDel(PROJECTS, project_id)

\* a delete that forgets to reset the pointer
delete_project_Active_kept(project_id) == ACTIVE_PROJECT_ID

delete_project_Active(project_id) ==
    IF project_id \notin DOMAIN PROJECTS THEN ACTIVE_PROJECT_ID
    ELSE IF ACTIVE_PROJECT_ID = project_id THEN NoneId ELSE ACTIVE_PROJECT_ID

\* a delete that removes the record and returns nothing
delete_project_Result_silent(project_id) == None

delete_project_Result(project_id) ==
    IF project_id \notin DOMAIN PROJECTS THEN None
    ELSE DeletedText(PROJECTS[project_id].name, project_id)

\* a switch that moves the pointer without looking the id up
switch_project_Active_unchecked(project_id) == project_id

switch_project_Active(project_id) ==
    IF project_id \notin DOMAIN PROJECTS THEN ACTIVE_PROJECT_ID ELSE project_id

switch_project_Result(project_id) ==
    IF project_id \notin DOMAIN PROJECTS THEN None
    ELSE SwitchedText(PROJECTS[project_id].name, project_id)

\* a create that stores the two texts under each other's key
create_project_Projects_swapped(name, description) ==
    DictPut(PROJECTS, nextProject, [name |-> description, description |-> name])

create_project_Projects(name, description) ==
    DictPut(PROJECTS, nextProject, [name |-> name, description |-> description])

\* a create that returns the id handed out before this one
create_project_Result_stale(name, description) == IdText(nextProject - 1)

create_project_Result(name, description) == IdText(nextProject)

get_project_details(project_id) ==
    IF project_id \notin DOMAIN PROJECTS THEN None
    ELSE DetailsDict(project_id, PROJECTS[project_id], project_id = ACTIVE_PROJECT_ID)

get_active_project ==
    IF ACTIVE_PROJECT_ID = NoneId THEN None
    ELSE get_project_details(ACTIVE_PROJECT_ID)

(* ---------------------- project store: bot/projects.py ---------------- *)

list_projects_tool ==
    IF DOMAIN BOT_PROJECTS = {} THEN None
    ELSE ListText(BOT_PROJECTS, BOT_ACTIVE_PROJECT_ID)

delete_project_tool_Projects(project_id) ==
    IF project_id \notin DOMAIN BOT_PROJECTS THEN BOT_PROJECTS
    ELSE DictDel(BOT_PROJECTS, project_id)

delete_project_tool_Active(project_id) ==
    IF project_id \notin DOMAIN BOT_PROJECTS THEN BOT_ACTIVE_PROJECT_ID
    ELSE IF BOT_ACTIVE_PROJECT_ID = project_id THEN NoneId
         ELSE BOT_ACTIVE_PROJECT_ID

delete_project_tool_Result(project_id) ==
    IF project_id \notin DOMAIN BOT_PROJECTS THEN None
    ELSE DeletedText(BOT_PROJECTS[project_id].name, project_id)

\* a switch that moves the pointer without looking the id up
switch_project_tool_Active_unchecked(project_id) == project_id

switch_project_tool_Active(project_id) ==
    IF project_id \notin DOMAIN BOT_PROJECTS THEN BOT_ACTIVE_PROJECT_ID
    ELSE project_id

switch_project_tool_Result(project_id) ==
    IF project_id \notin DOMAIN BOT_PROJECTS THEN None
    ELSE SwitchedText(BOT_PROJECTS[project_id].name, project_id)

create_project_tool_Projects(name, description) ==
    DictPut(BOT_PROJECTS, nextProject, [name |-> name, description |-> description])

create_project_tool_Result(name, description) == IdText(nextProject)

get_project_details_tool(project_id) ==
    IF project_id \notin DOMAIN BOT_PROJECTS THEN None
    ELSE DetailsDict(project_id, BOT_PROJECTS[project_id],
                     project_id = BOT_ACTIVE_PROJECT_ID)

get_active_project_tool ==
    IF BOT_ACTIVE_PROJECT_ID = NoneId THEN None
    ELSE IF BOT_ACTIVE_PROJECT_ID \notin DOMAIN BOT_PROJECTS THEN None
         ELSE DetailsDict(BOT_ACTIVE_PROJECT_ID,
                          BOT_PROJECTS[BOT_ACTIVE_PROJECT_ID], TRUE)

(* ------------------- the project stores' operations ------------------- *)

PReturned(op, arg, val) ==
    [op |-> op, arg |-> arg, val |-> val, active |-> ACTIVE_PROJECT_ID]

coreVars == <<PROJECTS, ACTIVE_PROJECT_ID>>

botVars == <<BOT_PROJECTS, BOT_ACTIVE_PROJECT_ID>>

ListProjects ==
    /\ pret' = PReturned("list_projects", NoneId, list_projects)
    /\ UNCHANGED <<coreVars, botVars, nextProject>>

DeleteProject(project_id) ==
    /\ PROJECTS' = delete_project_Projects(project_id)
    /\ ACTIVE_PROJECT_ID' = delete_project_Active(project_id)
    /\ pret' = PReturned("delete_project", project_id, delete_project_Result(project_id))
    /\ UNCHANGED <<botVars, nextProject>>

SwitchProject(project_id) ==
    /\ ACTIVE_PROJECT_ID' = switch_project_Active(project_id)
    /\ pret' = PReturned("switch_project", project_id, switch_project_Result(project_id))
    /\ UNCHANGED <<PROJECTS, botVars, nextProject>>

CreateProject(name, description) ==
    /\ nextProject <= MaxProjects
    /\ PROJECTS' = create_project_Projects(name, description)
    /\ nextProject' = nextProject + 1
    /\ pret' = PReturned("create_project", NoneId, create_project_Result(name, description))
    /\ UNCHANGED <<ACTIVE_PROJECT_ID, botVars>>

GetProjectDetails(project_id) ==
    /\ pret' = PReturned("get_project_details", project_id, get_project_details(project_id))
    /\ UNCHANGED <<coreVars, botVars, nextProject>>

GetActiveProject ==
    /\ pret' = PReturned("get_active_project", NoneId, get_active_project)
    /\ UNCHANGED <<coreVars, botVars, nextProject>>

ListProjectsTool ==
    /\ pret' = PReturned("list_projects_tool", NoneId, list_projects_tool)
    /\ UNCHANGED <<coreVars, botVars, nextProject>>

DeleteProjectTool(project_id) ==
    /\ BOT_PROJECTS' = delete_project_tool_Projects(project_id)
    /\ BOT_ACTIVE_PROJECT_ID' = delete_project_tool_Active(project_id)
    /\ pret' = PReturned("delete_project_tool", project_id,
                         delete_project_tool_Result(project_id))
    /\ UNCHANGED <<coreVars, nextProject>>

SwitchProjectTool(project_id) ==
    /\ BOT_ACTIVE_PROJECT_ID' = switch_project_tool_Active(project_id)
    /\ pret' = PReturned("switch_project_tool", project_id,
                         switch_project_tool_Result(project_id))
    /\ UNCHANGED <<BOT_PROJECTS, coreVars, nextProject>>

CreateProjectTool(name, description) ==
    /\ nextProject <= MaxProjects
    /\ BOT_PROJECTS' = create_project_tool_Projects(name, description)
    /\ nextProject' = nextProject + 1
    /\ pret' = PReturned("create_project_tool", NoneId,
                         create_project_tool_Result(name, description))
    /\ UNCHANGED <<BOT_ACTIVE_PROJECT_ID, coreVars>>

GetProjectDetailsTool(project_id) ==
    /\ pret' = PReturned("get_project_details_tool", project_id,
                         get_project_details_tool(project_id))
    /\ UNCHANGED <<coreVars, botVars, nextProject>>

GetActiveProjectTool ==
    /\ pret' = PReturned("get_active_project_tool", NoneId, get_active_project_tool)
    /\ UNCHANGED <<coreVars, botVars, nextProject>>

(* ------------- the two project stores, called side by side ----------- *)

\* what one operation returned from core/tools.py and from bot/projects.py
BothResults(core, bot) == [type |-> "pair", core |-> core, bot |-> bot]

BothListProjects ==
    /\ pret' = PReturned("list_projects", NoneId,
                         BothResults(list_projects, list_projects_tool))
    /\ UNCHANGED <<coreVars, botVars, nextProject>>

BothDeleteProject(project_id) ==
    /\ PROJECTS' = delete_project_Projects(project_id)
    /\ ACTIVE_PROJECT_ID' = delete_project_Active(project_id)
    /\ BOT_PROJECTS' = delete_project_tool_Projects(project_id)
    /\ BOT_ACTIVE_PROJECT_ID' = delete_project_tool_Active(project_id)
    /\ pret' = PReturned("delete_project", project_id,
                         BothResults(delete_project_Result(project_id),
                                     delete_project_tool_Result(project_id)))
    /\ UNCHANGED nextProject

BothSwitchProject(project_id) ==
    /\ ACTIVE_PROJECT_ID' = switch_project_Active(project_id)
    /\ BOT_ACTIVE_PROJECT_ID' = switch_project_tool_Active(project_id)
    /\ pret' = PReturned("switch_project", project_id,
                         BothResults(switch_project_Result(project_id),
                                     switch_project_tool_Result(project_id)))
    /\ UNCHANGED <<PROJECTS, BOT_PROJECTS, nextProject>>

\* uuid4 hands the same id to both stores
BothCreateProject(name, description) ==
    /\ nextProject <= MaxProjects
    /\ PROJECTS' = create_project_Projects(name, description)
    /\ BOT_PROJECTS' = create_project_tool_Projects(name, description)
    /\ nextProject' = nextProject + 1
    /\ pret' = PReturned("create_project", NoneId,
                         BothResults(create_project_Result(name, description),
                                     create_project_tool_Result(name, description)))
    /\ UNCHANGED <<ACTIVE_PROJECT_ID, BOT_ACTIVE_PROJECT_ID>>

BothGetProjectDetails(project_id) ==
    /\ pret' = PReturned("get_project_details", project_id,
                         BothResults(get_project_details(project_id),
                                     get_project_details_tool(project_id)))
    /\ UNCHANGED <<coreVars, botVars, nextProject>>

BothGetActiveProject ==
    /\ pret' = PReturned("get_active_project", NoneId,
                         BothResults(get_active_project, get_active_project_tool))
    /\ UNCHANGED <<coreVars, botVars, nextProject>>

(* --------------------- process_message: values ------------------------ *)

\* a str literal
Lit(text) == [type |-> "str", lit |-> text]

\* handlers.py:46-48
SYSTEM_PROMPT == Lit("You are an AI assistant that helps users manage projects. ...")

\* handlers.py:215
FALLBACK == Lit("I'm not sure how to help with that.")

\* handlers.py:220
APOLOGY == Lit("I encountered an error while processing your request. Please try again.")

\* the texts users send
UserMessages == {Lit("m1")}

\* a JSON value no dict can be keyed by (a list, an object)
Unhashable == -1

\* a decoded arguments object: the keys it has and their values
Args(keys, project_id, name, description) ==
    [keys |-> keys, project_id |-> project_id, name |-> name,
     description |-> description]

NoArgs == Args({}, NoneId, "", "")

ProjectIdArgs(project_id) == Args({"project_id"}, project_id, "", "")

CreateArgs(name, description) == Args({"name", "description"}, NoneId, name, description)

\* tool_call.function.arguments: a JSON text, well formed or not
Arguments(wellformed, decoded) == [wellformed |-> wellformed, decoded |-> decoded]

\* a tool call as the model API returns it
ToolCall(id, name, arguments) == [id |-> id, name |-> name, arguments |-> arguments]

\* the function part of the tool calls the model asks for
Requests ==
    {[name |-> "create_project", arguments |-> Arguments(TRUE, CreateArgs("N1", "D1"))],
     [name |-> "switch_project", arguments |-> Arguments(TRUE, ProjectIdArgs(1))],
     [name |-> "delete_project", arguments |-> Arguments(TRUE, ProjectIdArgs(1))],
     [name |-> "get_project_details", arguments |-> Arguments(TRUE, ProjectIdArgs(1))],
     [name |-> "get_active_project", arguments |-> Arguments(TRUE, NoArgs)],
     [name |-> "list_projects", arguments |-> Arguments(TRUE, NoArgs)],
     [name |-> "unknown_tool", arguments |-> Arguments(TRUE, NoArgs)],
     [name |-> "delete_project", arguments |-> Arguments(TRUE, NoArgs)],
     [name |-> "switch_project", arguments |-> Arguments(TRUE, ProjectIdArgs(Unhashable))],
     [name |-> "list_projects", arguments |-> Arguments(FALSE, NoArgs)]}

\* the requests that come in batches of two
BatchRequests ==
    {[name |-> "create_project", arguments |-> Arguments(TRUE, CreateArgs("N1", "D1"))],
     [name |-> "switch_project", arguments |-> Arguments(TRUE, ProjectIdArgs(Unhashable))],
     [name |-> "unknown_tool", arguments |-> Arguments(TRUE, NoArgs)]}

\* response.choices[0].message of the first model call
ResponseMessage(content, tool_calls) == [content |-> content, tool_calls |-> tool_calls]

Responses ==
    {ResponseMessage(c, <<>>) : c \in {Lit(""), Lit("text")}}
    \cup {ResponseMessage(Lit(""), <<ToolCall("call_1", r.name, r.arguments)>>) :
            r \in Requests}
    \cup {ResponseMessage(Lit("text"),
                          <<ToolCall("call_1", "get_active_project", Arguments(TRUE, NoArgs))>>)}
    \cup {ResponseMessage(Lit(""), <<ToolCall("call_1", a.name, a.arguments),
                                    ToolCall("call_2", b.name, b.arguments)>>) :
            a \in BatchRequests, b \in BatchRequests}

(* ------------------ process_message: the TOOLS mapping ---------------- *)

\* a mapping that leaves get_active_project out
TOOLS_without_get_active_project ==
    {"list_projects", "delete_project", "switch_project", "create_project",
     "get_project_details"}

\* core/tools.py TOOLS: the names it maps
TOOLS == {"list_projects", "delete_project", "switch_project", "create_project",
          "get_project_details", "get_active_project"}

\* the keyword parameters of each mapped function
Params(function_name) ==
    CASE function_name \in {"delete_project", "switch_project", "get_project_details"}
            -> {"project_id"}
      [] function_name = "create_project" -> {"name", "description"}
      [] OTHER -> {}

\* one entry of the tools list: the function's name, the names of its
\* properties and its required list
Tool(name, properties, required) ==
    [name |-> name, properties |-> properties, required |-> required]

\* handlers.py:54-151: the tools list sent with the first model call
tools ==
    <<Tool("list_projects", {}, <<>>),
      Tool("delete_project", {"project_id"}, <<"project_id">>),
      Tool("switch_project", {"project_id"}, <<"project_id">>),
      Tool("create_project", {"name", "description"}, <<"name", "description">>),
      Tool("get_project_details", {"project_id"}, <<"project_id">>),
      Tool("get_active_project", {}, <<>>)>>

\* TOOLS[function_name](**function_args) raises: the keywords do not bind,
\* or the project id cannot be looked up in the dict
ToolRaises(function_name, function_args) ==
    \/ function_args.keys # Params(function_name)
    \/ /\ function_name \in {"delete_project", "switch_project", "get_project_details"}
       /\ function_args.project_id = Unhashable

\* TOOLS[function_name](**function_args), the value it returns
ToolResult(function_name, function_args) ==
    CASE function_name = "list_projects" -> list_projects
      [] function_name = "delete_project" -> delete_project_Result(function_args.project_id)
      [] function_name = "switch_project" -> switch_project_Result(function_args.project_id)
      [] function_name = "create_project" ->
            create_project_Result(function_args.name, function_args.description)
      [] function_name = "get_project_details" ->
            get_project_details(function_args.project_id)
      [] function_name = "get_active_project" -> get_active_project

\* TOOLS[function_name](**function_args), the PROJECTS it leaves
ToolProjects(function_name, function_args) ==
    CASE function_name = "delete_project" -> delete_project_Projects(function_args.project_id)
      [] function_name = "create_project" ->
            create_project_Projects(function_args.name, function_args.description)
      [] OTHER -> PROJECTS

\* TOOLS[function_name](**function_args), the ACTIVE_PROJECT_ID it leaves
ToolActive(function_name, function_args) ==
    CASE function_name = "delete_project" -> delete_project_Active(function_args.project_id)
      [] function_name = "switch_project" -> switch_project_Active(function_args.project_id)
      [] OTHER -> ACTIVE_PROJECT_ID

\* args.get('project_id')
ArgsGetProjectId(args) ==
    IF "project_id" \in args.keys THEN args.project_id ELSE NoneId

generate_nl_response(tool_name, args, result) ==
    IF result = None
    THEN CASE tool_name = "list_projects" ->
                Lit("You don't have any projects yet. Would you like to create one?")
           [] tool_name \in {"delete_project", "switch_project", "get_project_details"} ->
                [type |-> "str", fmt |-> "I couldn't find a project with ID {}.",
                 id |-> ArgsGetProjectId(args)]
           [] tool_name = "get_active_project" ->
                Lit("You don't have an active project. ...")
           [] OTHER -> Lit("I couldn't complete that action. Please try again.")
    ELSE CASE tool_name = "list_projects" ->
                [type |-> "str", fmt |-> "Here are your projects:\n\n{}", value |-> result]
           [] tool_name \in {"delete_project", "switch_project"} -> result
           [] tool_name = "create_project" ->
                [type |-> "str", fmt |-> "I've created a new project with ID: {}",
                 value |-> result]
           [] tool_name = "get_project_details" ->
                [type |-> "str", fmt |-> "Project details:{}\nID: {}\nName: {}\nDescription: {}",
                 active_status |-> result.is_active, id |-> result.id,
                 name |-> result.name, description |-> result.description]
           [] tool_name = "get_active_project" ->
                [type |-> "str", fmt |-> "Your active project is:\nID: {}\nName: {}\nDescription: {}",
                 id |-> result.id, name |-> result.name,
                 description |-> result.description]
           [] OTHER -> [type |-> "str", fmt |-> "{}", value |-> result]

\* f"Function: {function_name}\nArguments: {json.dumps(function_args, indent=2)}"
ToolCallContent(function_name, function_args) ==
    [type |-> "str", fmt |-> "Function: {}\nArguments: {}",
     name |-> function_name, args |-> function_args]

\* json.dumps(result) if isinstance(result, dict) else str(result)
ResultContent(result) ==
    IF result.type = "dict" THEN [type |-> "str", fmt |-> "json", value |-> result]
    ELSE IF result = None THEN Lit("None")
    ELSE result

\* f"Result: {result_content}"
ToolResultContent(result) ==
    [type |-> "str", fmt |-> "Result: {}", value |-> ResultContent(result)]

\* f"I'm sorry, I don't know how to perform that action: {function_name}"
UnknownToolText(function_name) ==
    [type |-> "str", fmt |-> "I'm sorry, I don't know how to perform that action: {}",
     name |-> function_name]

(* ------------------- process_message: the steps ----------------------- *)

\* the local variables before they are assigned
NoResponse == ResponseMessage(Lit(""), <<>>)

Locals(message, user_id, conversation_id) ==
    [message |-> message, user_id |-> user_id, conversation_id |-> conversation_id,
     messages |-> <<>>, response_message |-> NoResponse, function_name |-> "",
     function_args |-> NoArgs, result |-> None]

\* an except clause that logs and lets the exception go on to the caller
Except_reraise ==
    /\ pc' = "done"
    /\ reply' = None

\* the except clause of process_message: log, return the apology
Except ==
    /\ pc' = "done"
    /\ reply' = APOLOGY

\* a call that starts with a project map and a pointer of its own
Start_own_projects(message, user_id, conversation_id) ==
    /\ pc = "idle"
    /\ turns < MaxTurns
    /\ conversation_id = NoneId => nextConv <= MaxConvs
    /\ pc' = "resolve"
    /\ local' = Locals(message, user_id, conversation_id)
    /\ reply' = None
    /\ apiCalls' = 0
    /\ handled' = <<>>
    /\ executed' = <<>>
    /\ turns' = turns + 1
    /\ PROJECTS' = EmptyDict
    /\ ACTIVE_PROJECT_ID' = NoneId
    /\ UNCHANGED <<histVars, botVars, nextProject, pret>>

\* handlers.py:24-36: the call
Start(message, user_id, conversation_id) ==
    /\ pc = "idle"
    /\ turns < MaxTurns
    /\ conversation_id = NoneId => nextConv <= MaxConvs
    /\ pc' = "resolve"
    /\ local' = Locals(message, user_id, conversation_id)
    /\ reply' = None
    /\ apiCalls' = 0
    /\ handled' = <<>>
    /\ executed' = <<>>
    /\ turns' = turns + 1
    /\ UNCHANGED <<histVars, projVars>>

\* a resolve step that makes a new conversation whatever id was given
Resolve_always_new ==
    /\ pc = "resolve"
    /\ create_conversation("A", local.user_id)
    /\ local' = [local EXCEPT !.conversation_id = nextConv]
    /\ pc' = "seed"
    /\ UNCHANGED <<calls, clock, projVars, reply, apiCalls, handled, executed, turns>>

\* handlers.py:40-41: create a conversation when no id was given
Resolve ==
    /\ pc = "resolve"
    /\ IF local.conversation_id = NoneId
       THEN /\ create_conversation("A", local.user_id)
            /\ local' = [local EXCEPT !.conversation_id = nextConv]
            /\ pc' = "seed"
       ELSE /\ pc' = "record_input"
            /\ UNCHANGED <<cache, disk, nextConv, local>>
    /\ UNCHANGED <<calls, clock, projVars, reply, apiCalls, handled, executed, turns>>

\* handlers.py:43-49: the system message of a new conversation
Seed ==
    /\ pc = "seed"
    /\ HistoryAdd("A", local.conversation_id, "MessageRole.SYSTEM", SYSTEM_PROMPT, EmptyDict)
    /\ pc' = "record_input"
    /\ UNCHANGED <<projVars, local, reply, apiCalls, handled, executed, turns>>

\* a step that goes on to the model call without storing the user's message
RecordInput_skipped ==
    /\ pc = "record_input"
    /\ pc' = "first_call"
    /\ UNCHANGED <<histVars, projVars, local, reply, apiCalls, handled, executed, turns>>

\* handlers.py:52: the user's message
RecordInput ==
    /\ pc = "record_input"
    /\ HistoryAdd("A", local.conversation_id, "MessageRole.USER", local.message, EmptyDict)
    /\ pc' = "first_call"
    /\ UNCHANGED <<projVars, local, reply, apiCalls, handled, executed, turns>>

\* handlers.py:154-165: messages = get_messages(...), then the model call
\* over them; it returns a message, one of responses, or raises
FirstCallOf(responses) ==
    /\ pc = "first_call"
    /\ cache' = [cache EXCEPT !["A"] = CacheAfterGet("A", local.conversation_id)]
    /\ apiCalls' = apiCalls + 1
    /\ \/ /\ Except
          /\ local' = [local EXCEPT
                         !.messages = GetMessagesResult("A", local.conversation_id)]
       \/ \E r \in responses :
             /\ (Len(r.tool_calls) > 0 /\ r.tool_calls[1].name = "create_project")
                    => nextProject <= MaxProjects
             /\ local' = [local EXCEPT
                            !.messages = GetMessagesResult("A", local.conversation_id),
                            !.response_message = r]
             /\ pc' = "store_content"
             /\ UNCHANGED reply
    /\ UNCHANGED <<disk, nextConv, calls, clock, projVars, handled, executed, turns>>

\* the first model call, with any of the responses
FirstCall == FirstCallOf(Responses)

\* a step that goes on to the tool calls without storing the response's text
StoreContent_skipped ==
    /\ pc = "store_content"
    /\ pc' = "dispatch"
    /\ UNCHANGED <<histVars, projVars, local, reply, apiCalls, handled, executed, turns>>

\* handlers.py:168-169: the response's text, when it has one
StoreContent ==
    /\ pc = "store_content"
    /\ IF local.response_message.content # Lit("")
       THEN HistoryAdd("A", local.conversation_id, "MessageRole.ASSISTANT",
                       local.response_message.content, EmptyDict)
       ELSE UNCHANGED histVars
    /\ pc' = "dispatch"
    /\ UNCHANGED <<projVars, local, reply, apiCalls, handled, executed, turns>>

\* a return of the content as it is, empty or not
TextReply_content(response_message) == response_message.content

\* handlers.py:215: response_message.content or the fallback text
TextReply(response_message) ==
    IF response_message.content # Lit("")
    THEN response_message.content
    ELSE FALLBACK

\* handlers.py:172-177 and 213-216: the first tool call is taken and its
\* arguments decoded, or the text is returned
Dispatch ==
    /\ pc = "dispatch"
    /\ IF Len(local.response_message.tool_calls) > 0
       THEN LET tool_call == local.response_message.tool_calls[1]
            IN  IF tool_call.arguments.wellformed
                THEN /\ local' = [local EXCEPT
                                    !.function_name = tool_call.name,
                                    !.function_args = tool_call.arguments.decoded]
                     /\ pc' = "record_call"
                     /\ UNCHANGED reply
                ELSE /\ Except
                     /\ UNCHANGED local
       ELSE /\ reply' = TextReply(local.response_message)
            /\ pc' = "done"
            /\ UNCHANGED local
    /\ UNCHANGED <<histVars, projVars, apiCalls, handled, executed, turns>>

\* the metadata of the tool-call entry, handlers.py:185
ToolCallMetadata(function_name, function_args) ==
    [function_name |-> function_name, function_args |-> function_args]

\* the metadata of the tool-result entry, handlers.py:198
ToolResultMetadata(function_name, result) ==
    [function_name |-> function_name, result |-> result]

\* a step that goes on to the lookup without writing the call entry
RecordCall_unrecorded ==
    /\ pc = "record_call"
    /\ handled' = Append(handled, local.response_message.tool_calls[1].id)
    /\ pc' = "execute"
    /\ UNCHANGED <<histVars, projVars, local, reply, apiCalls, executed, turns>>

\* handlers.py:179-186: the tool call goes into the history
RecordCall ==
    /\ pc = "record_call"
    /\ HistoryAdd("A", local.conversation_id, "MessageRole.TOOL",
                  ToolCallContent(local.function_name, local.function_args),
                  ToolCallMetadata(local.function_name, local.function_args))
    /\ handled' = Append(handled, local.response_message.tool_calls[1].id)
    /\ pc' = "execute"
    /\ UNCHANGED <<projVars, local, reply, apiCalls, executed, turns>>

\* handlers.py:189-190 and 208: the lookup in TOOLS and the call
Execute ==
    /\ pc = "execute"
    /\ IF local.function_name \in TOOLS
       THEN IF ToolRaises(local.function_name, local.function_args)
            THEN /\ Except
                 /\ executed' = Append(executed, local.response_message.tool_calls[1].id)
                 /\ UNCHANGED <<PROJECTS, ACTIVE_PROJECT_ID, nextProject, local>>
            ELSE /\ PROJECTS' = ToolProjects(local.function_name, local.function_args)
                 /\ ACTIVE_PROJECT_ID' = ToolActive(local.function_name, local.function_args)
                 /\ nextProject' = IF local.function_name = "create_project"
                                   THEN nextProject + 1 ELSE nextProject
                 /\ local' = [local EXCEPT !.result =
                                ToolResult(local.function_name, local.function_args)]
                 /\ executed' = Append(executed, local.response_message.tool_calls[1].id)
                 /\ pc' = "record_result"
                 /\ UNCHANGED reply
       ELSE /\ pc' = "record_unknown"
            /\ UNCHANGED <<PROJECTS, ACTIVE_PROJECT_ID, nextProject, local, reply, executed>>
    /\ UNCHANGED <<histVars, botVars, pret, apiCalls, handled, turns>>

\* handlers.py:193-199: the tool's result goes into the history
RecordResult ==
    /\ pc = "record_result"
    /\ HistoryAdd("A", local.conversation_id, "MessageRole.TOOL",
                  ToolResultContent(local.result),
                  ToolResultMetadata(local.function_name, local.result))
    /\ pc' = "record_reply"
    /\ UNCHANGED <<projVars, local, reply, apiCalls, handled, executed, turns>>

\* a step that returns the reply built from the result without storing it
RecordReply_unstored ==
    /\ pc = "record_reply"
    /\ reply' = generate_nl_response(local.function_name, local.function_args,
                                     local.result)
    /\ pc' = "done"
    /\ UNCHANGED <<histVars, projVars, local, apiCalls, handled, executed, turns>>

\* handlers.py:202-207: the reply is built from the result, stored, returned
RecordReply ==
    /\ pc = "record_reply"
    /\ HistoryAdd("A", local.conversation_id, "MessageRole.ASSISTANT",
                  generate_nl_response(local.function_name, local.function_args,
                                       local.result),
                  EmptyDict)
    /\ reply' = generate_nl_response(local.function_name, local.function_args,
                                     local.result)
    /\ pc' = "done"
    /\ UNCHANGED <<projVars, local, apiCalls, handled, executed, turns>>

\* handlers.py:209-212: the name is not in TOOLS
RecordUnknown ==
    /\ pc = "record_unknown"
    /\ HistoryAdd("A", local.conversation_id, "MessageRole.ASSISTANT",
                  UnknownToolText(local.function_name), EmptyDict)
    /\ reply' = UnknownToolText(local.function_name)
    /\ pc' = "done"
    /\ UNCHANGED <<projVars, local, apiCalls, handled, executed, turns>>

\* the caller has the reply
Return ==
    /\ pc = "done"
    /\ pc' = "idle"
    /\ UNCHANGED <<histVars, projVars, local, reply, apiCalls, handled, executed, turns>>

InitTurn ==
    /\ pc = "idle"
    /\ local = Locals(Lit(""), "", NoneId)
    /\ reply = None
    /\ apiCalls = 0
    /\ handled = <<>>
    /\ executed = <<>>
    /\ turns = 0

(* ------------------------ tool registry: values ----------------------- *)

\* a raised exception, as a value
Raise(kind) == [type |-> "raise", kind |-> kind]

\* an int
IntValue(n) == [type |-> "int", val |-> n]

\* one declared parameter of a callable: its name, its annotation, whether
\* it has a default, and the default
Parameter(name, annotation, has_default, default) ==
    [name |-> name, annotation |-> annotation, has_default |-> has_default,
     default |-> default]

\* a callable handed to register: __name__, __doc__, parameters, body
Callable(name, doc, params, body) ==
    [name |-> name, doc |-> doc, params |-> params, body |-> body]

\* def add_numbers(a: int, b: int = 0) -> int: return a + b
add_numbers ==
    Callable("add_numbers", "",
             <<Parameter("a", "int", FALSE, 0), Parameter("b", "int", TRUE, 0)>>,
             "return a + b")

\* def test_tool(required_param: str, optional_param: int = 0): pass
test_tool ==
    Callable("test_tool", "",
             <<Parameter("required_param", "str", FALSE, 0),
               Parameter("optional_param", "int", TRUE, 0)>>,
             "pass")

\* def test_tool(): pass
test_tool_no_parameters == Callable("test_tool", "", <<>>, "pass")

\* def test_method(self, param: str), registered inside a class body
test_method ==
    Callable("test_method", "",
             <<Parameter("self", "", FALSE, 0), Parameter("param", "str", FALSE, 0)>>,
             "return f'Method called with {param}'")

Callables == {add_numbers, test_tool, test_tool_no_parameters, test_method}

\* the name and description given to register; "" stands for not given
RegisterArgs == {<<"", "">>, <<"custom_name", "Custom description">>}

\* the names execute_tool and get_tool are asked for
ToolNames == {"add_numbers", "test_tool", "test_method", "custom_name",
              "non_existent_tool"}

\* keyword arguments: the keys passed and the values of a, b and the rest
Kwargs(keys, a, b, rest) == [keys |-> keys, a |-> a, b |-> b, rest |-> rest]

KwargSets ==
    {Kwargs({}, 0, 0, 0), Kwargs({"a"}, 1, 0, 0), Kwargs({"a", "b"}, 1, 2, 0),
     Kwargs({"b"}, 0, 2, 0), Kwargs({"param"}, 0, 0, 7),
     Kwargs({"required_param"}, 0, 0, 7)}

\* the call f(**kwargs): Python binds the keywords to the parameters, and
\* raises TypeError for a missing or an unexpected one, then runs the body
Invoke(f, kwargs) ==
    LET names == {f.params[i].name : i \in DOMAIN f.params}
        no_default == {f.params[i].name :
                         i \in {j \in DOMAIN f.params : ~f.params[j].has_default}}
    IN  IF ~(no_default \subseteq kwargs.keys /\ kwargs.keys \subseteq names)
        THEN Raise("TypeError")
        ELSE CASE f.body = "return a + b" ->
                    IntValue(kwargs.a + (IF "b" \in kwargs.keys THEN kwargs.b
                                    ELSE f.params[2].default))
               [] f.body = "pass" -> None
               [] OTHER -> [type |-> "str", fmt |-> "Method called with {}",
                            param |-> kwargs.rest]

(* ------------------------ tool registry: ToolRegistry ----------------- *)

\* register(name, description): the key and the entry stored under it
RegisteredName(f, name) == IF name = "" THEN f.name ELSE name

RegisteredEntry(f, description) ==
    [func |-> f, description |-> IF description = "" THEN f.doc ELSE description]

\* the schema type of an annotation; anything unrecognised is a string
SchemaType(annotation) ==
    CASE annotation = "str" -> "string"
      [] annotation = "int" -> "integer"
      [] annotation = "float" -> "number"
      [] annotation = "bool" -> "boolean"
      [] annotation = "Dict" -> "object"
      [] annotation = "List" -> "array"
      [] OTHER -> "string"

\* the parameters a schema describes: an implicit first self is left out
DeclaredParameters(f) ==
    IF Len(f.params) > 0 /\ f.params[1].name = "self" THEN Tail(f.params)
    ELSE f.params

\* a required list that names every described parameter
RequiredParameters_all(f) ==
    [i \in 1 .. Len(DeclaredParameters(f)) |-> DeclaredParameters(f)[i].name]

\* the required list: the described parameters without a default, in order
RequiredParameters(f) ==
    LET required == SelectSeq(DeclaredParameters(f), LAMBDA q : ~q.has_default)
    IN  [i \in 1 .. Len(required) |-> required[i].name]

\* one function descriptor of get_tool_schemas
ToolSchema(name, entry) ==
    [type |-> "function",
     function |->
       [name |-> name,
        description |-> entry.description,
        parameters |->
          [type |-> "object",
           properties |->
             [i \in DOMAIN DeclaredParameters(entry.func) |->
                [name |-> DeclaredParameters(entry.func)[i].name,
                 type |-> SchemaType(DeclaredParameters(entry.func)[i].annotation)]],
           required |-> RequiredParameters(entry.func)]]]

\* get_tool_schemas(): one descriptor per registered name (names are the
\* keys of the registry, so the list is given here by name)
get_tool_schemas ==
    [n \in DOMAIN registry_tools |-> ToolSchema(n, registry_tools[n])]

\* a lookup that answers None for a name it does not know, as dict.get does
execute_tool_get(name, kwargs) ==
    IF name \notin DOMAIN registry_tools THEN None
    ELSE Invoke(registry_tools[name].func, kwargs)

\* execute_tool(name, **kwargs): unknown-tool error, or the callable's result
execute_tool(name, kwargs) ==
    IF name \notin DOMAIN registry_tools THEN Raise("ValueError")
    ELSE Invoke(registry_tools[name].func, kwargs)

\* get_tool(name): the callable or None
get_tool(name) ==
    IF name \notin DOMAIN registry_tools THEN None
    ELSE [type |-> "function", func |-> registry_tools[name].func]

RReturned(op, name, kwargs, val) == [op |-> op, name |-> name, kwargs |-> kwargs, val |-> val]

Register(f, name, description) ==
    /\ registry_tools' = DictPut(registry_tools, RegisteredName(f, name),
                                 RegisteredEntry(f, description))
    /\ rret' = RReturned("register", RegisteredName(f, name), Kwargs({}, 0, 0, 0), None)

ExecuteTool(name, kwargs) ==
    /\ rret' = RReturned("execute_tool", name, kwargs, execute_tool(name, kwargs))
    /\ UNCHANGED registry_tools

GetToolSchemas ==
    /\ rret' = RReturned("get_tool_schemas", "", Kwargs({}, 0, 0, 0),
                         [type |-> "list", items |-> get_tool_schemas])
    /\ UNCHANGED registry_tools

GetTool(name) ==
    /\ rret' = RReturned("get_tool", name, Kwargs({}, 0, 0, 0), get_tool(name))
    /\ UNCHANGED registry_tools

InitRegistry ==
    /\ registry_tools = EmptyDict
    /\ rret = RReturned("ToolRegistry", "", Kwargs({}, 0, 0, 0), None)

(* ------------------------- OpenAI services ---------------------------- *)

\* a keyword argument that the call does not pass
NotGiven == [type |-> "not given"]

\* the system_message values callers pass
SystemMessages ==
    {NotGiven, Lit("You are a specialized AI assistant for testing")}

\* a conversation id, as the str the service returns
ConvIdText(id) == [type |-> "str", kind |-> "conversation_id", id |-> id]

SReturned(op, val) == [op |-> op, val |-> val]

\* create_conversation followed by add_message on the new conversation
create_conversation_with_message(m, user_id, role, content) ==
    LET conv == Appended(Conversation(nextConv, user_id), role, content, EmptyDict)
    IN  /\ cache' = [cache EXCEPT ![m] = DictPut(@, nextConv, conv)]
        /\ disk' = SavedDisk(disk, conv)
        /\ nextConv' = nextConv + 1
        /\ calls' = [calls EXCEPT ![nextConv] =
                       Append(@, [role |-> RoleValue(StoredRole(role)),
                                  content |-> content])]
        /\ clock' = clock + 1

\* openai_message_service.py:28-52: the signature takes user_id and
\* conversation_id only, so a call that passes system_message raises
\* TypeError before the body runs; otherwise a conversation is created and
\* seeded when no id is given, and the id given is returned as it is
CreateOrGetConversation(user_id, conversation_id, system_message) ==
    IF system_message # NotGiven
    THEN /\ sret' = SReturned("create_or_get_conversation", Raise("TypeError"))
         /\ UNCHANGED histVars
    ELSE IF conversation_id = NoneId
         THEN /\ nextConv <= MaxConvs
              /\ create_conversation_with_message("A", user_id, "MessageRole.SYSTEM",
                                                  SYSTEM_PROMPT)
              /\ sret' = SReturned("create_or_get_conversation", ConvIdText(nextConv))
         ELSE /\ sret' = SReturned("create_or_get_conversation",
                                   ConvIdText(conversation_id))
              /\ UNCHANGED histVars

\* openai_message_service.py:54-62
AddUserMessage(conversation_id, message) ==
    /\ clock <= MaxMsgs + 1
    /\ HistoryAdd("A", conversation_id, "MessageRole.USER", message, EmptyDict)
    /\ sret' = SReturned("add_user_message", None)

\* openai_message_service.py:188-198
GetConversationMessages(conversation_id) ==
    /\ cache' = [cache EXCEPT !["A"] = CacheAfterGet("A", conversation_id)]
    /\ sret' = SReturned("get_conversation_messages",
                         [type |-> "list", items |-> GetMessagesResult("A", conversation_id)])
    /\ UNCHANGED <<disk, nextConv, calls, clock>>

(* ------------------- OpenAIService: the token budget ------------------ *)

\* the messages of the lists that are limited
LimitedMessages ==
    {[role |-> "system", content |-> "You are an assistant"],
     [role |-> "user", content |-> "Hello"],
     [role |-> "assistant", content |-> "Hi there!"]}

\* the lists of at most n of these messages
RECURSIVE MessageLists(_)
MessageLists(n) ==
    IF n = 0 THEN {<<>>}
    ELSE MessageLists(n - 1)
         \cup {Append(l, m) : l \in {x \in MessageLists(n - 1) : Len(x) = n - 1},
                              m \in LimitedMessages}

\* the max_tokens values callers pass
Budgets == {1, 10, 17}

\* self.tokenizer.encode(text).__len__(): the tokens of the texts used
encode_len(text) ==
    CASE text = "" -> 0
      [] text = "Hello" -> 1
      [] text = "Hi there!" -> 3
      [] text = "You are an assistant" -> 4
      [] OTHER -> 2

\* openai_service.py:106-119: the tokens of the tool calls of a message
RECURSIVE tool_calls_tokens(_)
tool_calls_tokens(tool_calls) ==
    IF tool_calls = <<>> THEN 0
    ELSE LET tool_call == Head(tool_calls)
         IN  (IF "function" \in DOMAIN tool_call
              THEN (IF "name" \in DOMAIN tool_call.function
                    THEN encode_len(tool_call.function.name) ELSE 0)
                   + (IF "arguments" \in DOMAIN tool_call.function
                      THEN encode_len(tool_call.function.arguments) ELSE 0)
              ELSE 0)
             + tool_calls_tokens(Tail(tool_calls))

\* openai_service.py:92-119: the tokens of one message
message_tokens(message) ==
    4
    + (IF "content" \in DOMAIN message /\ message.content # ""
       THEN encode_len(message.content) ELSE 0)
    + (IF "name" \in DOMAIN message THEN encode_len(message.name) ELSE 0)
    + (IF "tool_calls" \in DOMAIN message THEN tool_calls_tokens(message.tool_calls)
       ELSE 0)

\* openai_service.py:79-124
RECURSIVE count_tokens(_)
count_tokens(messages) ==
    IF messages = <<>> THEN 2
    ELSE message_tokens(Head(messages)) + count_tokens(Tail(messages))

\* msg.get("role") == "system"
IsSystem(msg) == "role" \in DOMAIN msg /\ msg.role = "system"

\* a separation that sets no message aside
system_messages_none(messages, keep_system_messages) == <<>>

\* openai_service.py:154-164: the system messages set aside
system_messages(messages, keep_system_messages) ==
    IF keep_system_messages THEN SelectSeq(messages, IsSystem) ELSE <<>>

\* openai_service.py:154-164: the messages that may be removed
other_messages(messages, keep_system_messages) ==
    IF keep_system_messages THEN SelectSeq(messages, LAMBDA msg : ~IsSystem(msg))
    ELSE messages

\* openai_service.py:167-174: the oldest message is removed while the list
\* is not empty and the count is over the budget
RECURSIVE limited_messages(_, _, _)
limited_messages(kept, limited, max_tokens) ==
    IF limited # <<>> /\ count_tokens(kept \o limited) > max_tokens
    THEN limited_messages(kept, Tail(limited), max_tokens)
    ELSE limited

\* openai_service.py:126-182
limit_messages_by_tokens(messages, max_tokens, keep_system_messages) ==
    IF messages = <<>> THEN <<>>
    ELSE IF count_tokens(messages) <= max_tokens THEN messages
    ELSE system_messages(messages, keep_system_messages)
         \o limited_messages(system_messages(messages, keep_system_messages),
                             other_messages(messages, keep_system_messages),
                             max_tokens)

LReturned(messages, max_tokens, keep_system_messages, result) ==
    [messages |-> messages, max_tokens |-> max_tokens,
     keep_system_messages |-> keep_system_messages, result |-> result]

LimitMessagesByTokens(messages, max_tokens, keep_system_messages) ==
    /\ lret' = LReturned(messages, max_tokens, keep_system_messages,
                         limit_messages_by_tokens(messages, max_tokens,
                                                  keep_system_messages))
    /\ UNCHANGED sret

InitService ==
    /\ sret = SReturned("OpenAIMessageService", None)
    /\ lret = LReturned(<<>>, 17, TRUE, limit_messages_by_tokens(<<>>, 17, TRUE))

(* ----------------------------- chat adapter --------------------------- *)

\* the update being handled: where its handler stands, the user it is from,
\* the conversation id the handler read for the user, and the conversation
\* files there were when it arrived
Update(at, user_id, conversation_id, files) ==
    [pc |-> at, user_id |-> user_id, conversation_id |-> conversation_id,
     files |-> files]

NoUpdate == Update("idle", "", NoneId, {})

\* the responses of the model while the adapter is watched: a text, a call
\* of a tool of TOOLS, a call of a tool that is not in TOOLS
AdapterResponses ==
    {ResponseMessage(Lit("text"), <<>>),
     ResponseMessage(Lit(""),
                     <<ToolCall("call_1", "list_projects", Arguments(TRUE, NoArgs))>>),
     ResponseMessage(Lit(""),
                     <<ToolCall("call_1", "unknown_tool", Arguments(TRUE, NoArgs))>>)}

\* self._user_conversations.get(user_id)
UserConversation(user_id) ==
    IF user_id \in DOMAIN user_conversations THEN user_conversations[user_id]
    ELSE NoneId

\* telegram_bot.py:61-78 and 117-133: a conversation is created, stored as
\* the user's current one, and seeded with the system message
start_conversation(user_id) ==
    /\ update.pc = "idle"
    /\ pc = "idle"
    /\ nextConv <= MaxConvs
    /\ create_conversation_with_message("A", user_id, "system", SYSTEM_PROMPT)
    /\ user_conversations' = DictPut(user_conversations, user_id, nextConv)
    /\ UNCHANGED <<update, projVars, turnVars>>

\* telegram_bot.py:55-86
StartCommand(user_id) == start_conversation(user_id)

\* telegram_bot.py:111-139
NewConversationCommand(user_id) == start_conversation(user_id)

\* telegram_bot.py:183-198: the id stored for the user is read and
\* process_message is called with it
HandleMessage(user_id, message_text) ==
    /\ update.pc = "idle"
    /\ Start(message_text, user_id, UserConversation(user_id))
    /\ update' = Update("process_message", user_id, UserConversation(user_id),
                        DOMAIN disk)
    /\ UNCHANGED user_conversations

\* telegram_bot.py:194-198: process_message has returned its response
Returned ==
    /\ update.pc = "process_message"
    /\ Return
    /\ update' = [update EXCEPT !.pc = "associate"]
    /\ UNCHANGED user_conversations

\* an adapter that takes the last conversation of the list
AssociatedId_last(conversations) == conversations[Len(conversations)].id

\* telegram_bot.py:205: the first conversation of the list
AssociatedId(conversations) == conversations[1].id

\* telegram_bot.py:201-209: a user without a stored id gets the first of the
\* conversations list_conversations returns for the user
Associate ==
    /\ update.pc = "associate"
    /\ IF update.user_id \notin DOMAIN user_conversations
       THEN \E scan \in Listdirs, nows \in Nows :
               LET conversations == list_conversations(update.user_id, scan, nows)
               IN  user_conversations' =
                     IF Len(conversations) > 0
                     THEN DictPut(user_conversations, update.user_id,
                                  AssociatedId(conversations))
                     ELSE user_conversations
       ELSE UNCHANGED user_conversations
    /\ update' = [update EXCEPT !.pc = "idle"]
    /\ UNCHANGED <<histVars, projVars, turnVars>>

\* the bot process is started again over the same history directory:
\* TelegramBot.__init__ (telegram_bot.py:28-39), a new HistoryManager, and
\* the module globals of core/tools.py
Restart ==
    /\ update.pc = "idle"
    /\ pc = "idle"
    /\ user_conversations # EmptyDict
    /\ user_conversations' = EmptyDict
    /\ cache' = [cache EXCEPT !["A"] = EmptyDict]
    /\ PROJECTS' = EmptyDict
    /\ ACTIVE_PROJECT_ID' = NoneId
    /\ UNCHANGED <<disk, nextConv, calls, clock, botVars, nextProject, pret,
                   turnVars, update>>

InitAdapter ==
    /\ user_conversations = EmptyDict
    /\ update = NoUpdate

(* --------------------------- specifications --------------------------- *)

InitProjects ==
    /\ PROJECTS = EmptyDict
    /\ ACTIVE_PROJECT_ID = NoneId
    /\ BOT_PROJECTS = EmptyDict
    /\ BOT_ACTIVE_PROJECT_ID = NoneId
    /\ nextProject = 1
    /\ pret = PReturned("import", NoneId, None)

Init ==
    /\ InitHistory
    /\ InitProjects
    /\ InitTurn
    /\ InitRegistry
    /\ InitAdapter
    /\ InitService

vars == <<histVars, projVars, turnVars, otherVars>>

\* one history store over a directory, rebuilt at will
NextHistory ==
    \/ \E u \in Users : CreateConversation("A", u) /\ UNCHANGED <<projVars, turnVars, otherVars>>
    \/ \E c \in ConvIds, a \in AddArgs :
            AddMessage("A", c, a[1], a[2]) /\ UNCHANGED <<projVars, turnVars, otherVars>>
    \/ \E c \in ConvIds : GetConversation("A", c) /\ UNCHANGED <<projVars, turnVars, otherVars>>
    \/ \E c \in ConvIds : GetMessages("A", c) /\ UNCHANGED <<projVars, turnVars, otherVars>>
    \/ \E c \in ConvIds : DeleteConversation("A", c) /\ UNCHANGED <<projVars, turnVars, otherVars>>
    \/ \E u \in Users \cup {NoUser} :
            ListConversations("A", u) /\ UNCHANGED <<projVars, turnVars, otherVars>>
    \/ NewHistoryManager("A") /\ UNCHANGED <<projVars, turnVars, otherVars>>

SpecHistory == Init /\ [][NextHistory]_vars

\* one history store over a directory in which files can go bad
NextLoad ==
    \/ \E u \in Users : CreateConversation("A", u) /\ UNCHANGED <<projVars, turnVars, otherVars>>
    \/ \E c \in ConvIds, a \in AddArgs :
            AddMessage("A", c, a[1], a[2]) /\ UNCHANGED <<projVars, turnVars, otherVars>>
    \/ \E c \in ConvIds : GetConversation("A", c) /\ UNCHANGED <<projVars, turnVars, otherVars>>
    \/ \E c \in ConvIds : Corrupt(c) /\ UNCHANGED <<projVars, turnVars, otherVars>>
    \/ NewHistoryManager("A") /\ UNCHANGED <<projVars, turnVars, otherVars>>

SpecLoad == Init /\ [][NextLoad]_vars

\* two history stores over one directory: the one handlers.py gets from
\* core.history and the one telegram_bot.py gets from ai_tools_core.history
NextTwo ==
    \/ CreateConversation("A", "u1") /\ UNCHANGED <<projVars, turnVars, otherVars>>
    \/ \E m \in Managers, c \in ConvIds, a \in AddArgs :
            AddMessage(m, c, a[1], a[2]) /\ UNCHANGED <<projVars, turnVars, otherVars>>
    \/ \E m \in Managers, c \in ConvIds :
            GetMessages(m, c) /\ UNCHANGED <<projVars, turnVars, otherVars>>

SpecTwo == Init /\ [][NextTwo]_vars

\* the two project stores, called directly
NextProjects ==
    \/ ListProjects /\ UNCHANGED <<histVars, turnVars, otherVars>>
    \/ \E p \in ProjectIds : DeleteProject(p) /\ UNCHANGED <<histVars, turnVars, otherVars>>
    \/ \E p \in ProjectIds : SwitchProject(p) /\ UNCHANGED <<histVars, turnVars, otherVars>>
    \/ \E n \in Names, d \in Descriptions : CreateProject(n, d) /\ UNCHANGED <<histVars, turnVars, otherVars>>
    \/ \E p \in ProjectIds : GetProjectDetails(p) /\ UNCHANGED <<histVars, turnVars, otherVars>>
    \/ GetActiveProject /\ UNCHANGED <<histVars, turnVars, otherVars>>
    \/ ListProjectsTool /\ UNCHANGED <<histVars, turnVars, otherVars>>
    \/ \E p \in ProjectIds : DeleteProjectTool(p) /\ UNCHANGED <<histVars, turnVars, otherVars>>
    \/ \E p \in ProjectIds : SwitchProjectTool(p) /\ UNCHANGED <<histVars, turnVars, otherVars>>
    \/ \E n \in Names, d \in Descriptions : CreateProjectTool(n, d) /\ UNCHANGED <<histVars, turnVars, otherVars>>
    \/ \E p \in ProjectIds : GetProjectDetailsTool(p) /\ UNCHANGED <<histVars, turnVars, otherVars>>
    \/ GetActiveProjectTool /\ UNCHANGED <<histVars, turnVars, otherVars>>

SpecProjects == Init /\ [][NextProjects]_vars

\* the same sequence of operations applied to both project stores
NextBoth ==
    \/ BothListProjects /\ UNCHANGED <<histVars, turnVars, otherVars>>
    \/ \E p \in ProjectIds : BothDeleteProject(p) /\ UNCHANGED <<histVars, turnVars, otherVars>>
    \/ \E p \in ProjectIds : BothSwitchProject(p) /\ UNCHANGED <<histVars, turnVars, otherVars>>
    \/ \E n \in Names, d \in Descriptions :
            BothCreateProject(n, d) /\ UNCHANGED <<histVars, turnVars, otherVars>>
    \/ \E p \in ProjectIds :
            BothGetProjectDetails(p) /\ UNCHANGED <<histVars, turnVars, otherVars>>
    \/ BothGetActiveProject /\ UNCHANGED <<histVars, turnVars, otherVars>>

SpecBoth == Init /\ [][NextBoth]_vars

\* process_message called by the chat adapter, one message at a time, with
\* no id, the id of a conversation of the store, or an id the store lacks
NextTurn ==
    \/ \E t \in UserMessages, u \in Users, c \in {NoneId} \cup ConvIds :
            Start(t, u, c) /\ UNCHANGED otherVars
    \/ Resolve /\ UNCHANGED otherVars
    \/ Seed /\ UNCHANGED otherVars
    \/ RecordInput /\ UNCHANGED otherVars
    \/ FirstCall /\ UNCHANGED otherVars
    \/ StoreContent /\ UNCHANGED otherVars
    \/ Dispatch /\ UNCHANGED otherVars
    \/ RecordCall /\ UNCHANGED otherVars
    \/ Execute /\ UNCHANGED otherVars
    \/ RecordResult /\ UNCHANGED otherVars
    \/ RecordReply /\ UNCHANGED otherVars
    \/ RecordUnknown /\ UNCHANGED otherVars
    \/ Return /\ UNCHANGED otherVars

SpecTurn == Init /\ [][NextTurn]_vars

\* a tool registry: callables registered, looked up, described and called
NextRegistry ==
    \/ \E f \in Callables, a \in RegisterArgs :
            Register(f, a[1], a[2])
              /\ UNCHANGED <<histVars, projVars, turnVars, adapterVars, serviceVars>>
    \/ \E n \in ToolNames, k \in KwargSets :
            ExecuteTool(n, k)
              /\ UNCHANGED <<histVars, projVars, turnVars, adapterVars, serviceVars>>
    \/ GetToolSchemas
              /\ UNCHANGED <<histVars, projVars, turnVars, adapterVars, serviceVars>>
    \/ \E n \in ToolNames :
            GetTool(n)
              /\ UNCHANGED <<histVars, projVars, turnVars, adapterVars, serviceVars>>

SpecRegistry == Init /\ [][NextRegistry]_vars

\* the message service over one history store, and the store called directly
NextService ==
    \/ \E u \in Users, c \in {NoneId} \cup ConvIds, sm \in SystemMessages :
            CreateOrGetConversation(u, c, sm)
              /\ UNCHANGED <<projVars, turnVars, registryVars, adapterVars, lret>>
    \/ \E c \in ConvIds, t \in UserMessages :
            AddUserMessage(c, t)
              /\ UNCHANGED <<projVars, turnVars, registryVars, adapterVars, lret>>
    \/ \E c \in ConvIds :
            GetConversationMessages(c)
              /\ UNCHANGED <<projVars, turnVars, registryVars, adapterVars, lret>>
    \/ \E u \in Users :
            CreateConversation("A", u)
              /\ UNCHANGED <<projVars, turnVars, registryVars, adapterVars, serviceVars>>

SpecService == Init /\ [][NextService]_vars

\* the chat adapter: commands and text messages handled one at a time, each
\* text message by a call of process_message, and the process restarted
NextBot ==
    \/ \E u \in Users :
            StartCommand(u) /\ UNCHANGED <<registryVars, serviceVars>>
    \/ \E u \in Users :
            NewConversationCommand(u) /\ UNCHANGED <<registryVars, serviceVars>>
    \/ \E u \in Users, t \in UserMessages :
            HandleMessage(u, t) /\ UNCHANGED <<registryVars, serviceVars>>
    \/ Resolve /\ UNCHANGED otherVars
    \/ Seed /\ UNCHANGED otherVars
    \/ RecordInput /\ UNCHANGED otherVars
    \/ FirstCallOf(AdapterResponses) /\ UNCHANGED otherVars
    \/ StoreContent /\ UNCHANGED otherVars
    \/ Dispatch /\ UNCHANGED otherVars
    \/ RecordCall /\ UNCHANGED otherVars
    \/ Execute /\ UNCHANGED otherVars
    \/ RecordResult /\ UNCHANGED otherVars
    \/ RecordReply /\ UNCHANGED otherVars
    \/ RecordUnknown /\ UNCHANGED otherVars
    \/ Returned /\ UNCHANGED <<registryVars, serviceVars>>
    \/ Associate /\ UNCHANGED <<registryVars, serviceVars>>
    \/ Restart /\ UNCHANGED <<registryVars, serviceVars>>

SpecBot == Init /\ [][NextBot]_vars

\* limit_messages_by_tokens called on the lists of up to MaxInput messages
NextLimit ==
    \E messages \in MessageLists(MaxInput), max_tokens \in Budgets,
       keep_system_messages \in BOOLEAN :
          LimitMessagesByTokens(messages, max_tokens, keep_system_messages)
            /\ UNCHANGED <<histVars, projVars, turnVars, registryVars, adapterVars>>

SpecLimit == Init /\ [][NextLimit]_vars

(* ---------------------- claims on the history store ------------------- *)

\* the {role, content} projection of a conversation object's messages
Projection(conv) ==
    [i \in 1 .. Len(conv.messages) |->
        [role |-> RoleValue(conv.messages[i].role),
         content |-> conv.messages[i].content]]

\* C1: on every conversation the store holds, get_messages returns exactly
\* one {role, content} entry per add_message call made on it, in call order,
\* each with the role and the content that was passed.
C1_GetMessagesInCallOrder ==
    \A c \in Live("A") : GetMessagesResult("A", c) = calls[c]

\* C1 witness: two calls with different roles and contents were made on a
\* cached conversation and get_messages returns both in order.
C1_Witness ==
    \E c \in DOMAIN cache["A"] :
        /\ Len(calls[c]) = 2
        /\ calls[c][1].role # calls[c][2].role
        /\ calls[c][1].content # calls[c][2].content
        /\ GetMessagesResult("A", c) = calls[c]

\* two conversation objects agree on id, user_id, message count, and on
\* every message's role and content
SameConversation(a, b) ==
    /\ a.id = b.id
    /\ a.user_id = b.user_id
    /\ Len(a.messages) = Len(b.messages)
    /\ \A i \in 1 .. Len(a.messages) :
           /\ a.messages[i].role = b.messages[i].role
           /\ a.messages[i].content = b.messages[i].content

\* C2: saving a conversation and loading it in a store whose cache does not
\* hold it yields the same id, user_id, message count, roles and contents in
\* the same order; and a conversation found only on disk loads with its id
\* and with the messages that were added to it.
C2_SaveLoadRoundTrip ==
    /\ \A c \in DOMAIN cache["A"] :
           SameConversation(
               LoadConversation(SavedDisk(EmptyDict, cache["A"][c]), c),
               cache["A"][c])
    /\ \A c \in (DOMAIN disk) \ (DOMAIN cache["A"]) :
           /\ GetConversationResult("A", c).id = c
           /\ Projection(GetConversationResult("A", c)) = calls[c]
           /\ \A i \in 1 .. Len(calls[c]) :
                  GetConversationResult("A", c).messages[i].role \in RoleMembers

\* C2 witness: a conversation with two messages of different roles is on
\* disk and not in the cache, so get_conversation loads it from its file.
C2_Witness ==
    \E c \in (DOMAIN disk) \ (DOMAIN cache["A"]) :
        /\ Len(disk[c].messages) = 2
        /\ disk[c].messages[1].role # disk[c].messages[2].role
        /\ Len(GetConversationResult("A", c).messages) = 2

(* ---------------------- claims on the project stores ------------------ *)

\* C3: in both project stores the active pointer is none or the id of a
\* project in the store, and at most one project reports is_active true.
C3_ActivePointerValid ==
    /\ ACTIVE_PROJECT_ID = NoneId \/ ACTIVE_PROJECT_ID \in DOMAIN PROJECTS
    /\ Cardinality({p \in DOMAIN PROJECTS : get_project_details(p).is_active}) <= 1
    /\ BOT_ACTIVE_PROJECT_ID = NoneId \/ BOT_ACTIVE_PROJECT_ID \in DOMAIN BOT_PROJECTS
    /\ Cardinality({p \in DOMAIN BOT_PROJECTS :
                       get_project_details_tool(p).is_active}) <= 1

\* C3 witness: a delete_project call has just removed a project, the
\* pointer is none, and another project is still in the store.
C3_Witness ==
    /\ pret.op = "delete_project"
    /\ pret.val # None
    /\ ACTIVE_PROJECT_ID = NoneId
    /\ DOMAIN PROJECTS # {}
    /\ \E p \in DOMAIN BOT_PROJECTS : BOT_ACTIVE_PROJECT_ID = p

(* ---------------------- claims on process_message --------------------- *)

\* the messages of the turn's conversation, as the store holds them
TurnHistory ==
    IF local.conversation_id \in Live("A")
    THEN GetConversationResult("A", local.conversation_id).messages
    ELSE <<>>

\* the tool calls of the turn's first model response
TurnToolCalls == local.response_message.tool_calls

\* the call names a mapped tool, its arguments decode, and the tool returns
CallSucceeds(tool_call) ==
    /\ tool_call.name \in TOOLS
    /\ tool_call.arguments.wellformed
    /\ ~ToolRaises(tool_call.name, tool_call.arguments.decoded)

\* the call names a mapped tool, its arguments decode, and the tool raises
CallRaises(tool_call) ==
    /\ tool_call.name \in TOOLS
    /\ tool_call.arguments.wellformed
    /\ ToolRaises(tool_call.name, tool_call.arguments.decoded)

\* a tool-role entry whose metadata holds a result
SuccessShaped(m) ==
    /\ m.role = "MessageRole.TOOL"
    /\ "result" \in DOMAIN m.metadata

\* a tool-role entry whose metadata holds an error text
ErrorShaped(m) ==
    /\ m.role = "MessageRole.TOOL"
    /\ "error" \in DOMAIN m.metadata

\* the entry's metadata holds this tool-call id
CarriesId(m, id) ==
    /\ "tool_call_id" \in DOMAIN m.metadata
    /\ m.metadata.tool_call_id = id

\* the turn has returned, its conversation is one the store holds, and the
\* first response asked for n tool calls with well-formed arguments
TurnDone(n) ==
    /\ pc = "done"
    /\ local.conversation_id \in Live("A")
    /\ Len(TurnToolCalls) = n
    /\ \A i \in 1 .. n : TurnToolCalls[i].arguments.wellformed

\* C4: after a turn whose first response asks for two tool calls, one that
\* succeeds and one that fails, the history holds one success-shaped and one
\* error-shaped entry for them and the reply is one string.
C4_BatchOneSuccessOneError ==
    (/\ TurnDone(2)
     /\ \E i, j \in 1 .. 2 :
            /\ i # j
            /\ CallSucceeds(TurnToolCalls[i])
            /\ ~CallSucceeds(TurnToolCalls[j]))
    => /\ Cardinality({k \in DOMAIN TurnHistory : SuccessShaped(TurnHistory[k])}) = 1
       /\ Cardinality({k \in DOMAIN TurnHistory : ErrorShaped(TurnHistory[k])}) = 1
       /\ reply.type = "str"

\* C5: after a turn whose first response asks for n >= 1 tool calls, every
\* one of them has been handled exactly once, in the order of the response,
\* and two calls with the same name and arguments have both been executed.
C5_EveryCallHandledInOrder ==
    \A n \in 1 .. 2 :
        TurnDone(n)
        => /\ handled = [i \in 1 .. n |-> TurnToolCalls[i].id]
           /\ \A i, j \in 1 .. n :
                  (/\ i # j
                   /\ TurnToolCalls[i].name = TurnToolCalls[j].name
                   /\ TurnToolCalls[i].arguments = TurnToolCalls[j].arguments
                   /\ TurnToolCalls[i].name \in TOOLS)
                  => \E a, b \in DOMAIN executed :
                        /\ executed[a] = TurnToolCalls[i].id
                        /\ executed[b] = TurnToolCalls[j].id

\* C6: after a turn in which a tool body raised, an error-shaped entry is in
\* the history, every call of the batch has been handled, and the reply is
\* not the one an escaped exception gives.
C6_ToolFaultCaughtPerCall ==
    \A n \in 1 .. 2 :
        (/\ TurnDone(n)
         /\ \E i \in 1 .. n, e \in DOMAIN executed :
                /\ executed[e] = TurnToolCalls[i].id
                /\ CallRaises(TurnToolCalls[i]))
        => /\ \E k \in DOMAIN TurnHistory : ErrorShaped(TurnHistory[k])
           /\ handled = [i \in 1 .. n |-> TurnToolCalls[i].id]
           /\ reply # APOLOGY

\* C7: after a turn that handled a call naming no mapped tool, that call has
\* executed nothing, an error-shaped entry is in the history, and the turn
\* returned without an exception.
C7_UnknownToolIsErrorEntry ==
    \A n \in 1 .. 2 :
        (/\ TurnDone(n)
         /\ \E i \in 1 .. n, h \in DOMAIN handled :
                /\ handled[h] = TurnToolCalls[i].id
                /\ TurnToolCalls[i].name \notin TOOLS)
        => /\ \A i \in 1 .. n, e \in DOMAIN executed :
                  executed[e] = TurnToolCalls[i].id => TurnToolCalls[i].name \in TOOLS
           /\ \E k \in DOMAIN TurnHistory : ErrorShaped(TurnHistory[k])
           /\ reply # APOLOGY

\* the step raises: the model call, the decoding of the arguments, or the
\* mapped tool
Raises ==
    \/ pc = "first_call" /\ pc' = "done"
    \/ /\ pc = "dispatch"
       /\ Len(TurnToolCalls) > 0
       /\ ~TurnToolCalls[1].arguments.wellformed
    \/ /\ pc = "execute"
       /\ local.function_name \in TOOLS
       /\ ToolRaises(local.function_name, local.function_args)

\* C8: every step that ends a turn leaves a string as the reply, and when
\* the step raised the reply is the fixed apology text.
C8_NeverRaisesToCaller ==
    [][(pc # "done" /\ pc' = "done")
        => /\ reply'.type = "str"
           /\ Raises =>
                reply' = Lit("I encountered an error while processing your request. Please try again.")]_vars

\* C8 witness: a turn has ended with the apology after its mapped tool was
\* called and raised.
C8_Witness ==
    /\ pc = "done"
    /\ reply = Lit("I encountered an error while processing your request. Please try again.")
    /\ executed = <<"call_1">>
    /\ CallRaises(TurnToolCalls[1])

\* C9: after a turn, for every tool call it handled, the history holds an
\* entry recording the call and a later entry recording its result or error,
\* both with the id the model API gave the call in their metadata.
C9_CallAndResultShareId ==
    \A n \in 1 .. 2 :
        TurnDone(n)
        => \A h \in DOMAIN handled :
              \E j, k \in DOMAIN TurnHistory :
                  /\ j < k
                  /\ CarriesId(TurnHistory[j], handled[h])
                  /\ CarriesId(TurnHistory[k], handled[h])
                  /\ SuccessShaped(TurnHistory[k]) \/ ErrorShaped(TurnHistory[k])

\* C10: a step that finds no tool calls in the first response ends the turn
\* with the response's text, or with "I'm not sure how to help with that."
\* when the text is empty, with no tool executed and one model call made.
C10_NoToolCallsReturnsText ==
    [][(pc = "dispatch" /\ Len(TurnToolCalls) = 0)
        => /\ pc' = "done"
           /\ reply' = IF local.response_message.content = Lit("")
                       THEN Lit("I'm not sure how to help with that.")
                       ELSE local.response_message.content
           /\ executed' = <<>>
           /\ handled' = <<>>
           /\ apiCalls' = 1
           /\ PROJECTS' = PROJECTS
           /\ ACTIVE_PROJECT_ID' = ACTIVE_PROJECT_ID]_vars

\* C10 witness: a turn has ended with the fallback text after a response
\* with no text and no tool calls; another with the response's own text.
C10_Witness ==
    /\ pc = "done"
    /\ apiCalls = 1
    /\ executed = <<>>
    /\ Len(TurnToolCalls) = 0
    /\ reply = Lit("I'm not sure how to help with that.")
    /\ turns = 2
    /\ \E c \in Live("A") :
          \E k \in DOMAIN GetMessagesResult("A", c) :
              GetMessagesResult("A", c)[k] = [role |-> "assistant", content |-> Lit("text")]

\* C11: the resolve step of a turn started without an id creates exactly one
\* conversation, whose first and only message after seeding is the fixed
\* system instruction; with an id it creates none and adds no message.
C11_ResolveCreatesOrReuses ==
    [][/\ (pc = "resolve" /\ local.conversation_id = NoneId)
            => /\ local'.conversation_id \notin DOMAIN disk
               /\ DOMAIN disk' = DOMAIN disk \cup {local'.conversation_id}
               /\ disk'[local'.conversation_id].messages = <<>>
               /\ \A c \in DOMAIN disk : disk'[c] = disk[c]
               /\ pc' = "seed"
       /\ pc = "seed"
            => /\ DOMAIN disk' = DOMAIN disk
               /\ GetMessagesResult("A", local.conversation_id)' =
                    << [role |-> "system",
                        content |-> Lit("You are an AI assistant that helps users manage projects. ...")] >>
               /\ pc' = "record_input"
       /\ (pc = "resolve" /\ local.conversation_id # NoneId)
            => /\ disk' = disk
               /\ cache' = cache
               /\ local'.conversation_id = local.conversation_id
               /\ pc' = "record_input"]_vars

\* C11 witness: in a second turn, started without an id, the new
\* conversation has been seeded and holds the system instruction alone,
\* next to the conversation of the first turn.
C11_Witness ==
    /\ pc = "record_input"
    /\ turns = 2
    /\ local.conversation_id = 2
    /\ DOMAIN disk = {1, 2}
    /\ Len(disk[2].messages) = 1
    /\ disk[2].messages[1].role = "system"
    /\ Len(disk[1].messages) > 1

\* the turn has returned, its first response asked for tool calls, and no
\* exception reached the except clause
ToolTurnReturned ==
    /\ pc = "done"
    /\ Len(TurnToolCalls) > 0
    /\ reply # APOLOGY

\* the last entry get_messages returns for the turn's conversation is the
\* reply, under the assistant role
ReplyIsLastEntry ==
    LET msgs == GetMessagesResult("A", local.conversation_id)
    IN  /\ Len(msgs) > 0
        /\ msgs[Len(msgs)] = [role |-> "assistant", content |-> reply]

\* C12 as stated: after every turn with tool calls that returned without an
\* escaping exception, the returned string is the last entry of the
\* conversation, under the assistant role.
C12_ReplyAppendedLast_AsStated ==
    ToolTurnReturned => ReplyIsLastEntry

\* C12 as amended: after every turn with tool calls that returned without an
\* escaping exception, on a conversation id the history store holds, the
\* returned string is the last entry of the conversation, under the
\* assistant role.
C12_ReplyAppendedLast ==
    (ToolTurnReturned /\ local.conversation_id \in Live("A")) => ReplyIsLastEntry

\* C12 witness: a second turn on the conversation of the first has executed
\* a tool and returned the reply built from its result, now the last entry.
C12_Witness ==
    /\ ToolTurnReturned
    /\ turns = 2
    /\ local.conversation_id \in Live("A")
    /\ executed = <<"call_1">>
    /\ local.result # None
    /\ ReplyIsLastEntry
    /\ Len(GetMessagesResult("A", local.conversation_id)) > 6

(* ------------------- more claims on the history store ----------------- *)

\* sequence a is an initial part of sequence b
IsPrefix(a, b) ==
    /\ Len(a) <= Len(b)
    /\ \A i \in 1 .. Len(a) : a[i] = b[i]

\* C13: in every step, a conversation the store holds either is still held
\* afterwards, with its earlier messages as a prefix of its later ones (in
\* the file and in what get_messages returns), or the step is a
\* delete_conversation call on it.
C13_AppendOnly ==
    [][\A c \in Live("A") :
          IF c \in Live("A")'
          THEN /\ IsPrefix(GetMessagesResult("A", c), GetMessagesResult("A", c)')
               /\ c \in DOMAIN disk /\ c \in DOMAIN disk'
                    => IsPrefix(disk[c].messages, disk'[c].messages)
          ELSE DeleteConversation("A", c)]_vars

\* C13 witness: a conversation holds two messages added one after the
\* other, and another conversation was created and deleted.
C13_Witness ==
    \E c \in DOMAIN disk, d \in 1 .. (nextConv - 1) :
        /\ d \notin Live("A")
        /\ Len(disk[c].messages) = 2
        /\ disk[c].messages[1] # disk[c].messages[2]
\* the step of a turn calls add_message on the turn's conversation id
TurnAddsMessage ==
    \/ pc \in {"seed", "record_input", "record_call", "record_result",
               "record_reply", "record_unknown"}
    \/ pc = "store_content" /\ local.response_message.content # Lit("")

\* C14: a step that calls add_message with an id that is neither cached nor
\* persisted completes, creates no conversation under that id or any other,
\* and leaves the cache and every persisted conversation as they were.
C14_UnknownIdAddIsNoOp ==
    [][(TurnAddsMessage /\ local.conversation_id \notin Live("A"))
        => /\ pc' # pc
           /\ local.conversation_id \notin Live("A")'
           /\ cache' = cache
           /\ disk' = disk]_vars

\* C14 witness: a turn on an id the store does not hold has gone through
\* its add_message calls and returned, while the store holds another
\* conversation, with its messages as the first turn left them.
C14_Witness ==
    /\ pc = "done"
    /\ turns = 2
    /\ local.conversation_id \notin Live("A")
    /\ handled = <<"call_1">>
    /\ reply # APOLOGY
    /\ \E c \in DOMAIN disk : Len(disk[c].messages) > 1 /\ c \in DOMAIN cache["A"]
\* C15: a delete_conversation step on any id leaves the id in neither the
\* cache nor the files, so get_conversation then returns None; the call
\* returns true exactly when the store held the conversation before it and
\* does not hold it after.
C15_DeleteRemovesBoth ==
    [][\A c \in ConvIds :
          DeleteConversation("A", c)
          => /\ c \notin DOMAIN cache'["A"]
             /\ c \notin DOMAIN disk'
             /\ GetConversationResult("A", c)' = None
             /\ DeleteResult(c) <=> (c \in Live("A") /\ c \notin Live("A")')]_vars

\* C15 witness: two conversations were created, the first was deleted, the
\* second holds messages, and get_conversation finds only the second.
C15_Witness ==
    /\ nextConv = 3
    /\ Live("A") = {2}
    /\ TotalMsgs = MaxMsgs
    /\ GetConversationResult("A", 1) = None
    /\ GetConversationResult("A", 2) # None
\* the ids of a list of summaries, as a set
SummaryIds(summaries) == {summaries[i].id : i \in DOMAIN summaries}

\* C16: whatever the order of the scan, list_conversations(u) returns one
\* summary for each persisted conversation whose user_id is u and none for
\* another user's, and list_conversations() one per persisted conversation.
C16_ListFiltersByUser ==
    \A scan \in Listdirs, nows \in Nows :
        /\ \A u \in Users :
              LET r == list_conversations(u, scan, nows)
              IN  /\ SummaryIds(r) = {c \in DOMAIN disk : disk[c].user_id = u}
                  /\ Len(r) = Cardinality(SummaryIds(r))
                  /\ \A i \in DOMAIN r : r[i].user_id = u
        /\ LET r == list_conversations(NoUser, scan, nows)
           IN  /\ SummaryIds(r) = DOMAIN disk
               /\ Len(r) = Cardinality(DOMAIN disk)

\* C16 witness: conversations of two users are persisted; the list for one
\* user holds that user's conversation alone and the full list holds both.
C16_Witness ==
    /\ \E c, d \in DOMAIN disk : disk[c].user_id = "u1" /\ disk[d].user_id = "u2"
    /\ \E scan \in Listdirs, nows \in Nows :
          /\ Len(list_conversations("u1", scan, nows)) = 1
          /\ list_conversations("u1", scan, nows)[1].user_id = "u1"
          /\ Len(list_conversations(NoUser, scan, nows)) = 2

\* the time of the last message a persisted conversation received
LastMessageAt(c) == fromisoformat(disk[c].messages[Len(disk[c].messages)].timestamp)

OperationOn(a) ==
    \/ \E args \in AddArgs : AddMessage("A", a, args[1], args[2])
    \/ GetMessages("A", a)
    \/ GetConversation("A", a)
    \/ DeleteConversation("A", a)

\* C18: a call on one conversation id leaves every other conversation as it
\* was, held or not, in the cache and in its file; and after the call the
\* messages of every conversation the store holds are those added to it, in
\* the order they were added.
C18_ConversationsIndependent ==
    [][\A a \in ConvIds :
          OperationOn(a)
          => \A b \in ConvIds \ {a} :
                /\ (b \in DOMAIN disk') = (b \in DOMAIN disk)
                /\ b \in DOMAIN disk => disk'[b] = disk[b]
                /\ (b \in DOMAIN cache'["A"]) = (b \in DOMAIN cache["A"])
                /\ b \in DOMAIN cache["A"] => cache'["A"][b] = cache["A"][b]
                /\ b \in Live("A") =>
                      /\ GetMessagesResult("A", b)' = GetMessagesResult("A", b)
                      /\ GetMessagesResult("A", b)' = calls'[b]]_vars

\* C18 witness: messages were added to two conversations, to the second
\* before the first, and each holds its own message alone.
C18_Witness ==
    /\ Live("A") = {1, 2}
    /\ GetMessagesResult("A", 1) = calls[1]
    /\ GetMessagesResult("A", 2) = calls[2]
    /\ Len(calls[1]) = 1
    /\ Len(calls[2]) = 1
    /\ calls[1] # calls[2]
    /\ disk[1].messages[1].timestamp.iso > disk[2].messages[1].timestamp.iso

(* ------------------- more claims on the project store ----------------- *)

\* C19: a delete_project(id) step taken while id is the active project
\* leaves a store in which get_active_project() returns None and
\* get_project_details(id) returns None.
C19_DeleteActiveClearsPointer ==
    [][\A p \in ProjectIds :
          (ACTIVE_PROJECT_ID = p /\ DeleteProject(p))
          => /\ get_active_project' = None
             /\ get_project_details(p)' = None]_vars

\* C19 witness: delete_project has just returned its message for a project
\* that was the active one when it was called, while another project is
\* still in the store.
C19_Witness ==
    /\ pret.op = "delete_project"
    /\ pret.active = pret.arg
    /\ pret.val # None
    /\ DOMAIN PROJECTS # {}
    /\ get_active_project = None
    /\ get_project_details(pret.arg) = None
\* C20: right after id = create_project(N, D), get_project_details(id)
\* returns id, N, D and is_active false; a switch_project(id) step on a
\* stored project makes get_project_details(id) return the same record with
\* is_active true; and no step changes the name or description of a stored
\* project.
C20_CreateThenDetails ==
    [][/\ \A n \in Names, d \in Descriptions, id \in {nextProject} :
             CreateProject(n, d)
             => get_project_details(id)' =
                  [type |-> "dict", id |-> id, name |-> n,
                   description |-> d, is_active |-> FALSE]
       /\ \A p \in DOMAIN PROJECTS :
             /\ SwitchProject(p)
                  => get_project_details(p)' =
                       [type |-> "dict", id |-> p, name |-> get_project_details(p).name,
                        description |-> get_project_details(p).description,
                        is_active |-> TRUE]
             /\ p \in DOMAIN PROJECTS'
                  => /\ get_project_details(p)'.name = get_project_details(p).name
                     /\ get_project_details(p)'.description =
                          get_project_details(p).description]_vars

\* C20 witness: get_project_details has just returned the record of a
\* project created as ("N2", "D1") and switched to, with is_active true,
\* while the record of another stored project has is_active false.
C20_Witness ==
    /\ pret.op = "get_project_details"
    /\ pret.val # None
    /\ pret.val.name = "N2"
    /\ pret.val.description = "D1"
    /\ pret.val.is_active
    /\ pret.val = get_project_details(pret.arg)
    /\ \E q \in DOMAIN PROJECTS :
          /\ q # pret.arg
          /\ ~get_project_details(q).is_active

(* ------------- the frame of switch, delete and create ----------------- *)

\* C21: a switch_project(id) step (in either project store) on an id the
\* store holds makes id the active project and returns a message; on an id
\* the store does not hold it returns None and leaves the active pointer
\* unchanged; in both cases every project record is unchanged.
C21_SwitchExactlyWhenStored ==
    [][\A p \in ProjectIds :
          /\ SwitchProject(p)
               => /\ PROJECTS' = PROJECTS
                  /\ IF p \in DOMAIN PROJECTS
                     THEN ACTIVE_PROJECT_ID' = p /\ pret'.val # None
                     ELSE ACTIVE_PROJECT_ID' = ACTIVE_PROJECT_ID /\ pret'.val = None
          /\ SwitchProjectTool(p)
               => /\ BOT_PROJECTS' = BOT_PROJECTS
                  /\ IF p \in DOMAIN BOT_PROJECTS
                     THEN BOT_ACTIVE_PROJECT_ID' = p /\ pret'.val # None
                     ELSE /\ BOT_ACTIVE_PROJECT_ID' = BOT_ACTIVE_PROJECT_ID
                          /\ pret'.val = None]_vars

\* C21 witness: switch_project has just returned None for an id that is not
\* in the store, and the pointer an earlier switch set still names a stored
\* project.
C21_Witness ==
    /\ pret.op = "switch_project"
    /\ pret.val = None
    /\ pret.arg \notin DOMAIN PROJECTS
    /\ ACTIVE_PROJECT_ID \in DOMAIN PROJECTS
    /\ pret.active = ACTIVE_PROJECT_ID

\* C22: a delete_project(id) step (in either project store) removes the
\* record id and nothing else, returns a message exactly when id was in the
\* store, leaves every other record as it was, and leaves the active pointer
\* as it was unless the pointer was id.
C22_DeleteExactlyOne ==
    [][\A p \in ProjectIds :
          /\ DeleteProject(p)
               => /\ DOMAIN PROJECTS' = (DOMAIN PROJECTS) \ {p}
                  /\ \A q \in DOMAIN PROJECTS' : PROJECTS'[q] = PROJECTS[q]
                  /\ (pret'.val # None) <=> (p \in DOMAIN PROJECTS)
                  /\ ACTIVE_PROJECT_ID # p => ACTIVE_PROJECT_ID' = ACTIVE_PROJECT_ID
          /\ DeleteProjectTool(p)
               => /\ DOMAIN BOT_PROJECTS' = (DOMAIN BOT_PROJECTS) \ {p}
                  /\ \A q \in DOMAIN BOT_PROJECTS' : BOT_PROJECTS'[q] = BOT_PROJECTS[q]
                  /\ (pret'.val # None) <=> (p \in DOMAIN BOT_PROJECTS)
                  /\ BOT_ACTIVE_PROJECT_ID # p
                       => BOT_ACTIVE_PROJECT_ID' = BOT_ACTIVE_PROJECT_ID]_vars

\* C22 witness: delete_project has just returned its message for a stored
\* project that was not the active one; the active project is still stored
\* and still active.
C22_Witness ==
    /\ pret.op = "delete_project"
    /\ pret.val # None
    /\ pret.arg \notin DOMAIN PROJECTS
    /\ pret.active # pret.arg
    /\ pret.active = ACTIVE_PROJECT_ID
    /\ ACTIVE_PROJECT_ID \in DOMAIN PROJECTS

\* C23: a create_project step (in either project store) returns an id that
\* no stored project has, adds one record under that id holding the given
\* name and description, and leaves every other record and the active
\* pointer unchanged.
C23_CreateAddsOneFreshRecord ==
    [][\A n \in Names, d \in Descriptions :
          /\ CreateProject(n, d)
               => /\ pret'.val # None
                  /\ pret'.val.id \notin DOMAIN PROJECTS
                  /\ DOMAIN PROJECTS' = (DOMAIN PROJECTS) \cup {pret'.val.id}
                  /\ PROJECTS'[pret'.val.id] = [name |-> n, description |-> d]
                  /\ \A q \in DOMAIN PROJECTS : PROJECTS'[q] = PROJECTS[q]
                  /\ ACTIVE_PROJECT_ID' = ACTIVE_PROJECT_ID
          /\ CreateProjectTool(n, d)
               => /\ pret'.val # None
                  /\ pret'.val.id \notin DOMAIN BOT_PROJECTS
                  /\ DOMAIN BOT_PROJECTS' = (DOMAIN BOT_PROJECTS) \cup {pret'.val.id}
                  /\ BOT_PROJECTS'[pret'.val.id] = [name |-> n, description |-> d]
                  /\ \A q \in DOMAIN BOT_PROJECTS : BOT_PROJECTS'[q] = BOT_PROJECTS[q]
                  /\ BOT_ACTIVE_PROJECT_ID' = BOT_ACTIVE_PROJECT_ID]_vars

\* C23 witness: create_project has just returned the id of the record it
\* added to a store that already held another project, the active one.
C23_Witness ==
    /\ pret.op = "create_project"
    /\ pret.val.id \in DOMAIN PROJECTS
    /\ pret.active \in (DOMAIN PROJECTS) \ {pret.val.id}
    /\ pret.active = ACTIVE_PROJECT_ID

(* ----------------------- claims on the tool registry ------------------ *)

\* C24: an execute_tool(name, kwargs) step on a registered name returns what
\* the registered callable returns for those arguments (add_numbers gives 3
\* for a=1, b=2 and 1 for a=1 alone); on a name that is not registered it
\* raises the unknown-tool error (ValueError) and does not return None.
C24_ExecuteToolCallsOrFails ==
    [][\A n \in ToolNames, k \in KwargSets :
          ExecuteTool(n, k)
          => IF n \in DOMAIN registry_tools
             THEN /\ rret'.val = Invoke(registry_tools[n].func, k)
                  /\ (registry_tools[n].func = add_numbers /\ k.keys = {"a", "b"})
                        => rret'.val = IntValue(3)
                  /\ (registry_tools[n].func = add_numbers /\ k.keys = {"a"})
                        => rret'.val = IntValue(1)
             ELSE /\ rret'.val = Raise("ValueError")
                  /\ rret'.val # None]_vars

\* C24 witness: add_numbers is registered as "custom_name" only, and
\* execute_tool("add_numbers", a=1, b=2) has just raised ValueError.
C24_Witness ==
    /\ rret.op = "execute_tool"
    /\ rret.name = "add_numbers"
    /\ rret.kwargs.keys = {"a", "b"}
    /\ rret.val = Raise("ValueError")
    /\ DOMAIN registry_tools = {"custom_name"}
    /\ registry_tools["custom_name"].func = add_numbers

\* C25: for every registered tool, the names in the required list of its
\* schema are exactly the parameters of the callable that have no default,
\* an implicit first self left out; no name is listed twice.
C25_RequiredIsNoDefault ==
    \A n \in DOMAIN registry_tools :
       LET f == registry_tools[n].func
           required == get_tool_schemas[n].function.parameters.required
           no_default == {f.params[i].name :
                            i \in {j \in DOMAIN f.params :
                                     /\ ~f.params[j].has_default
                                     /\ ~(j = 1 /\ f.params[j].name = "self")}}
       IN  /\ {required[i] : i \in DOMAIN required} = no_default
           /\ Len(required) = Cardinality(no_default)
           /\ \A i \in DOMAIN f.params :
                 f.params[i].has_default
                 => \A j \in DOMAIN required : required[j] # f.params[i].name

\* C25 witness: get_tool_schemas has just described a registry holding
\* test_tool and test_method: test_tool requires required_param only, and
\* test_method requires param and not self.
C25_Witness ==
    /\ rret.op = "get_tool_schemas"
    /\ {"test_tool", "test_method"} \subseteq DOMAIN registry_tools
    /\ registry_tools["test_tool"].func = test_tool
    /\ registry_tools["test_method"].func = test_method
    /\ rret.val.items = get_tool_schemas
    /\ rret.val.items["test_tool"].function.parameters.required = <<"required_param">>
    /\ rret.val.items["test_method"].function.parameters.required = <<"param">>

(* --------------------- claims on the message service ------------------ *)

\* the system-role messages of the list get_messages returns
SystemMessagesOf(msgs) == {i \in DOMAIN msgs : msgs[i].role = "system"}

\* C26: after a create_or_get_conversation(user, conversation_id=c,
\* system_message=S) step on a conversation c of the store, the messages of
\* c hold exactly one system message, its content is S, and it is the first
\* message when c had a system message before the call.
C26_SystemMessageReplaced ==
    [][\A u \in Users, c \in ConvIds, sm \in SystemMessages \ {NotGiven} :
          (c \in DOMAIN disk /\ CreateOrGetConversation(u, c, sm))
          => /\ Cardinality(SystemMessagesOf(GetMessagesResult("A", c)')) = 1
             /\ \A i \in SystemMessagesOf(GetMessagesResult("A", c)') :
                   GetMessagesResult("A", c)'[i].content = sm
             /\ SystemMessagesOf(GetMessagesResult("A", c)) # {}
                  => 1 \in SystemMessagesOf(GetMessagesResult("A", c)')]_vars

(* ------------------ claims on the messages sent to the model ---------- *)

\* C27: in the list get_messages hands to the model API at the first call
\* of a turn, every tool-role message has a name and a tool_call_id, and an
\* assistant message before it has tool_calls holding a call with that id.
C27_ToolMessagesCarryCallId ==
    pc = "first_call"
    => LET msgs == GetMessagesResult("A", local.conversation_id)
       IN  \A i \in DOMAIN msgs :
              msgs[i].role = "tool"
              => /\ {"name", "tool_call_id"} \subseteq DOMAIN msgs[i]
                 /\ \E j \in 1 .. i - 1 :
                       /\ msgs[j].role = "assistant"
                       /\ "tool_calls" \in DOMAIN msgs[j]
                       /\ \E k \in DOMAIN msgs[j].tool_calls :
                             msgs[j].tool_calls[k].id = msgs[i].tool_call_id

(* ----------------------- claims on the chat adapter ------------------- *)

\* C28: when the adapter finishes a text message of a user it held no
\* conversation id for, the id it stores for the user is the id of the
\* conversation process_message created for that message (a conversation
\* that did not exist when the message arrived); and a text message of a
\* user with a stored id is handed to process_message with that id and its
\* text is appended to that conversation.
C28_StoredIdIsCreatedId ==
    [][/\ (Associate /\ update.conversation_id = NoneId)
            => /\ update.user_id \in DOMAIN user_conversations'
               /\ user_conversations'[update.user_id] = local.conversation_id
               /\ local.conversation_id \notin update.files
               /\ local.conversation_id \in DOMAIN disk
       /\ \A u \in DOMAIN user_conversations, t \in UserMessages :
             HandleMessage(u, t) => local'.conversation_id = user_conversations[u]
       /\ (RecordInput /\ update.pc = "process_message"
                       /\ update.conversation_id # NoneId)
            => /\ update.conversation_id = user_conversations[update.user_id]
               /\ disk'[update.conversation_id].messages =
                    Append(disk[update.conversation_id].messages,
                           disk'[update.conversation_id].messages[
                              Len(disk'[update.conversation_id].messages)])
               /\ disk'[update.conversation_id].messages[
                     Len(disk'[update.conversation_id].messages)].content
                    = local.message]_vars

\* C28 witness: after a restart, a user who already had a conversation sent
\* a text message; process_message created a second conversation for it and
\* the adapter has just stored that conversation's id for the user.
C28_Witness ==
    /\ update.pc = "idle"
    /\ update.user_id = "u1"
    /\ update.conversation_id = NoneId
    /\ update.files = {1}
    /\ DOMAIN disk = {1, 2}
    /\ disk[1].user_id = "u1"
    /\ disk[2].user_id = "u1"
    /\ local.conversation_id = 2
    /\ UserConversation("u1") = 2

(* ----------------------- claims on the token budget ------------------- *)

\* the messages of a list that are not system messages
NonSystem(messages) == SelectSeq(messages, LAMBDA msg : ~IsSystem(msg))

\* b is what is left of a after some of its first elements are removed
IsSuffix(b, a) ==
    /\ Len(b) <= Len(a)
    /\ b = SubSeq(a, Len(a) - Len(b) + 1, Len(a))

\* what C29 says of every call with keep_system_messages, but for the
\* number of messages returned
LimitKeepsSystemDropsOldest ==
    /\ SelectSeq(lret.result, IsSystem) = SelectSeq(lret.messages, IsSystem)
    /\ count_tokens(lret.messages) <= lret.max_tokens => lret.result = lret.messages
    /\ count_tokens(lret.messages) > lret.max_tokens
         => /\ IsSuffix(NonSystem(lret.result), NonSystem(lret.messages))
            /\ \/ count_tokens(lret.result) <= lret.max_tokens
               \/ NonSystem(lret.result) = <<>>
            /\ \A n \in 1 .. Len(NonSystem(lret.messages)) :
                  n > Len(NonSystem(lret.result))
                  => count_tokens(SelectSeq(lret.messages, IsSystem)
                                  \o SubSeq(NonSystem(lret.messages),
                                            Len(NonSystem(lret.messages)) - n + 1,
                                            Len(NonSystem(lret.messages))))
                       > lret.max_tokens

\* C29 as stated: a limit_messages_by_tokens call with keep_system_messages
\* returns every system message of its input, returns the input when its
\* count is within max_tokens, and otherwise returns fewer messages than it
\* was given, the non-system ones dropped oldest first until the count fits
\* or none is left.
C29_LimitKeepsSystem_AsStated ==
    lret.keep_system_messages
    => /\ LimitKeepsSystemDropsOldest
       /\ count_tokens(lret.messages) > lret.max_tokens
            => Len(lret.result) < Len(lret.messages)

\* C29 amended: as stated, but over the budget the call returns fewer
\* messages than it was given only when its input holds a message that is
\* not a system message; an input of system messages alone (or an empty
\* one) is returned with as many messages as it had.
C29_LimitKeepsSystem ==
    lret.keep_system_messages
    => /\ LimitKeepsSystemDropsOldest
       /\ count_tokens(lret.messages) > lret.max_tokens
            => IF NonSystem(lret.messages) # <<>>
               THEN Len(lret.result) < Len(lret.messages)
               ELSE Len(lret.result) = Len(lret.messages)

\* C29 witness: the call on [system, user, assistant] with max_tokens=10
\* has returned the system message alone.
C29_Witness ==
    /\ lret.keep_system_messages
    /\ lret.max_tokens = 10
    /\ Len(lret.messages) = 3
    /\ lret.messages[1].role = "system"
    /\ lret.messages[2].role = "user"
    /\ lret.messages[3].role = "assistant"
    /\ lret.result = <<lret.messages[1]>>

(* ------------------ claims on the order of a tool call ---------------- *)

\* the last message of the turn's conversation is the tool-role entry that
\* describes the call being handled
CallEntryIsLast ==
    /\ Len(TurnHistory) > 0
    /\ RoleValue(TurnHistory[Len(TurnHistory)].role) = "tool"
    /\ TurnHistory[Len(TurnHistory)].content =
         ToolCallContent(local.function_name, local.function_args)
    /\ TurnHistory[Len(TurnHistory)].metadata =
         ToolCallMetadata(local.function_name, local.function_args)

\* the tool of the call being handled was called and raised, and the turn
\* ended in the except clause
ExecutionFailed ==
    /\ pc = "done"
    /\ executed # <<>>
    /\ reply = APOLOGY

\* C30 as stated: when the tool of a call is about to be looked up, and when
\* its execution has failed and ended the turn, the call's tool-role entry
\* is the last entry of the conversation's history; no tool is called for a
\* call that has not been recorded.
C30_CallEntryBeforeExecution_AsStated ==
    /\ (pc = "execute" \/ ExecutionFailed) => CallEntryIsLast
    /\ \A i \in DOMAIN executed : \E j \in DOMAIN handled : handled[j] = executed[i]

\* C30 as amended: the same, on a conversation id the history store holds.
C30_CallEntryBeforeExecution ==
    /\ ((pc = "execute" \/ ExecutionFailed) /\ local.conversation_id \in Live("A"))
         => CallEntryIsLast
    /\ \A i \in DOMAIN executed : \E j \in DOMAIN handled : handled[j] = executed[i]

\* C30 witness: switch_project was called with a project_id it cannot hash
\* and raised; the turn returned the apology, and the call entry, written
\* before the call, is the last entry of the conversation.
C30_Witness ==
    /\ ExecutionFailed
    /\ local.function_name = "switch_project"
    /\ local.conversation_id \in Live("A")
    /\ handled = <<"call_1">>
    /\ executed = <<"call_1">>
    /\ CallEntryIsLast

(* ------------------ claims on the second model call ------------------- *)

\* the places of the tool-role entries in the turn's history
ToolEntries == {k \in DOMAIN TurnHistory : TurnHistory[k].role = "MessageRole.TOOL"}

\* the system-role entries that come after every tool-role entry
SystemEntriesAfterTools ==
    {k \in DOMAIN TurnHistory :
        /\ TurnHistory[k].role = "MessageRole.SYSTEM"
        /\ \A t \in ToolEntries : t < k}

\* C31: after a turn whose first response asks for tool calls and that ends
\* without an exception, exactly one system-role entry follows the last tool
\* entry of the history, and the model API has been called exactly twice.
C31_OutcomesEntryThenSecondCall ==
    \A n \in 1 .. 2 :
        (TurnDone(n) /\ reply # APOLOGY)
        => /\ ToolEntries # {}
           /\ Cardinality(SystemEntriesAfterTools) = 1
           /\ apiCalls = 2

(* ------------------ claims on the first model call -------------------- *)

\* the first model call is made over a list that is the record of the
\* add_message calls on the turn's conversation, in call order, and that
\* ends with the user's message of this turn
SentIsHistoryEndingWithInput ==
    LET sent == local'.messages
    IN  /\ apiCalls = 0
        /\ sent = calls[local.conversation_id]
        /\ Len(sent) > 0
        /\ sent[Len(sent)] = [role |-> "user", content |-> local.message]

\* C32 as stated: in every turn, the step that makes the first model call
\* sends the conversation's full history in insertion order, ending with the
\* user's message, which was appended before the call.
C32_InputRecordedBeforeFirstCall_AsStated ==
    [][pc = "first_call" => SentIsHistoryEndingWithInput]_vars

\* C32: in every turn on a conversation id the history store holds, the step
\* that makes the first model call sends the conversation's full history in
\* insertion order, ending with the user's message, which was appended before
\* the call.
C32_InputRecordedBeforeFirstCall ==
    [][(pc = "first_call" /\ local.conversation_id \in Live("A"))
        => SentIsHistoryEndingWithInput]_vars

\* C32 witness: the first model call of a second turn on the same
\* conversation has been made over the system prompt, the first turn's
\* entries and the second user message.
C32_Witness ==
    /\ pc = "store_content"
    /\ turns = 2
    /\ apiCalls = 1
    /\ local.conversation_id \in Live("A")
    /\ Len(local.messages) >= 3
    /\ local.messages[1].role = "system"
    /\ local.messages[Len(local.messages)] = [role |-> "user", content |-> local.message]

(* ------------------ claims on the persisted record -------------------- *)

\* after the step, the store's cache and the directory both hold c, and the
\* record loaded from the file agrees with the cached object
PersistedEqualsCached(c) ==
    /\ c \in DOMAIN cache'["A"]
    /\ c \in DOMAIN disk'
    /\ SameConversation(LoadConversation(disk', c), cache'["A"][c])

\* C33: with one history store, a create_conversation step leaves the new
\* conversation persisted with an empty message list and equal to the cached
\* one, and an add_message step on a conversation the store holds leaves its
\* persisted record equal to the cached conversation: same id, user_id and
\* messages in the same order.
C33_PersistedAfterEveryMutation ==
    [][\A c \in ConvIds :
          /\ (c = nextConv /\ \E u \in Users : CreateConversation("A", u))
                => /\ PersistedEqualsCached(c)
                   /\ disk'[c].messages = <<>>
          /\ (c \in Live("A") /\ \E a \in AddArgs : AddMessage("A", c, a[1], a[2]))
                => /\ PersistedEqualsCached(c)
                   /\ Len(disk'[c].messages) = Len(calls[c]) + 1]_vars

\* C33 witness: one conversation holds two messages, in the cache and in its
\* file alike, and another was created and persisted with no message.
C33_Witness ==
    \E c, d \in DOMAIN cache["A"] :
        /\ c # d
        /\ Len(cache["A"][c].messages) = 2
        /\ cache["A"][c].messages[1].content # cache["A"][c].messages[2].content
        /\ SameConversation(LoadConversation(disk, c), cache["A"][c])
        /\ disk[d].messages = <<>>

(* ------------------ claims on get_conversation ------------------------ *)

\* C34: get_conversation(id) returns the cached conversation and leaves the
\* cache alone when the cache holds id; otherwise, when the file of id loads,
\* it returns the loaded record and the cache then holds it under id; when
\* the file is missing or malformed it returns None, not an exception, and
\* leaves the cache unchanged.
C34_GetConversationCacheThenFile ==
    \A c \in ConvIds :
        LET result == GetConversationResult("A", c)
            after == CacheAfterGet("A", c)
        IN  IF c \in DOMAIN cache["A"]
            THEN /\ result = cache["A"][c]
                 /\ after = cache["A"]
            ELSE IF c \in DOMAIN disk /\ disk[c] # Malformed
            THEN /\ result = model_validate(disk[c])
                 /\ after = DictPut(cache["A"], c, result)
            ELSE /\ result = None
                 /\ after = cache["A"]

\* C34 witness: the store's cache is empty after a restart; one conversation
\* with a message is on disk and loads, the file of another is malformed.
C34_Witness ==
    /\ cache["A"] = EmptyDict
    /\ \E c, d \in DOMAIN disk :
          /\ disk[c] # Malformed
          /\ Len(disk[c].messages) > 0
          /\ GetConversationResult("A", c) = model_validate(disk[c])
          /\ disk[d] = Malformed
          /\ GetConversationResult("A", d) = None

(* ------------------ claims on the order of the limited list ----------- *)

\* a is b with some of its elements left out: the elements of a appear in
\* b in the same relative order
RECURSIVE IsSubsequence(_, _)
IsSubsequence(a, b) ==
    IF a = <<>> THEN TRUE
    ELSE IF b = <<>> THEN FALSE
    ELSE IF Head(a) = Head(b) THEN IsSubsequence(Tail(a), Tail(b))
    ELSE IsSubsequence(a, Tail(b))

\* C35: the messages a limit_messages_by_tokens call returns appear in the
\* same relative order as in the list it was given.
C35_LimitPreservesOrder ==
    IsSubsequence(lret.result, lret.messages)

(* ------------------ claims on which replies are recorded -------------- *)

\* the places of the assistant-role entries in the turn's history
AssistantEntries ==
    {k \in DOMAIN TurnHistory : TurnHistory[k].role = "MessageRole.ASSISTANT"}

\* the last assistant-role entry of the turn's history holds the reply
ReplyIsLastAssistantEntry ==
    \E k \in AssistantEntries :
        /\ \A j \in AssistantEntries : j <= k
        /\ TurnHistory[k].content = reply

\* the reply is the first response's non-empty text, or is built from the
\* result of the tool that ran, or is the unknown-tool message
ReplyIsTextOrFromTool ==
    \/ /\ Len(TurnToolCalls) = 0
       /\ local.response_message.content # Lit("")
       /\ reply = local.response_message.content
    \/ /\ executed # <<>>
       /\ reply = generate_nl_response(local.function_name, local.function_args,
                                       local.result)
    \/ /\ handled # <<>>
       /\ local.function_name \notin TOOLS
       /\ reply = UnknownToolText(local.function_name)

\* when a turn has returned: the reply is the last assistant-role entry
\* exactly when it is the model's text or comes from a tool call, and the
\* fallback and the apology are in no entry of the history
RecordedExactlyWhenTextOrTool ==
    /\ ReplyIsLastAssistantEntry <=> ReplyIsTextOrFromTool
    /\ reply \in {FALLBACK, APOLOGY}
         => /\ ~ReplyIsTextOrFromTool
            /\ \A k \in DOMAIN TurnHistory : TurnHistory[k].content # reply

\* C36 as stated: when process_message has returned, its reply is the last
\* assistant-role message of the conversation exactly when it is the
\* model's non-empty text, or built from a tool result, or the unknown-tool
\* message; the fallback and the apology are not recorded.
C36_RepliesRecorded_AsStated ==
    pc = "done" => RecordedExactlyWhenTextOrTool

\* C36: when process_message has returned on a conversation id the history
\* store holds, its reply is the last assistant-role message of the
\* conversation exactly when it is the model's non-empty text, or built from
\* a tool result, or the unknown-tool message; the fallback and the apology
\* are not recorded.
C36_RepliesRecorded ==
    (pc = "done" /\ local.conversation_id \in Live("A"))
    => RecordedExactlyWhenTextOrTool

\* C36 witness: a turn whose first response was text without tool calls has
\* returned the text, and the text is the last assistant entry; the turn
\* before it returned the fallback on the same conversation, which holds no
\* entry with it.
C36_Witness ==
    /\ pc = "done"
    /\ turns = 2
    /\ local.conversation_id \in Live("A")
    /\ Len(TurnToolCalls) = 0
    /\ reply = Lit("text")
    /\ ReplyIsLastAssistantEntry
    /\ Cardinality(AssistantEntries) = 1
    /\ Len(TurnHistory) = 4

(* ------------------ claims on the advertised tools -------------------- *)

\* the names the tools list advertises
AdvertisedNames == {tools[i].name : i \in DOMAIN tools}

\* the elements of a required list
RequiredOf(tool) == {tool.required[i] : i \in DOMAIN tool.required}

\* the running call handles a tool call that names an advertised tool and
\* passes exactly its required arguments
AdvertisedCall ==
    \E i \in DOMAIN tools :
        /\ local.function_name = tools[i].name
        /\ local.function_args.keys = RequiredOf(tools[i])

\* C37: the names the tools list advertises are the keys of TOOLS, each
\* advertised required list holds exactly the parameters of the mapped
\* function, and a turn that handles a call naming an advertised tool with
\* its required arguments is never in the unknown-tool branch.
C37_AdvertisedToolsAreMapped ==
    /\ AdvertisedNames = TOOLS
    /\ \A i, j \in DOMAIN tools : tools[i].name = tools[j].name => i = j
    /\ \A i \in DOMAIN tools :
          /\ RequiredOf(tools[i]) = Params(tools[i].name)
          /\ Len(tools[i].required) = Cardinality(Params(tools[i].name))
    /\ (pc = "record_unknown" /\ handled # <<>>) => ~AdvertisedCall

\* C37 witness: a call of create_project with name and description, the
\* two arguments its entry requires, was found in TOOLS and has run.
C37_Witness ==
    /\ pc = "record_result"
    /\ local.function_name = "create_project"
    /\ local.function_args.keys = {"name", "description"}
    /\ AdvertisedCall
    /\ executed = <<"call_1">>

(* ------------------ claims on the two project stores ------------------ *)

\* C38: after every sequence of create, switch, delete, get-details,
\* get-active and list operations applied to both project stores, with the
\* same ids generated, the two stores hold equal project maps and equal
\* active pointers, and the last operation returned equal results from both.
C38_StoresBehaveTheSame ==
    /\ PROJECTS = BOT_PROJECTS
    /\ ACTIVE_PROJECT_ID = BOT_ACTIVE_PROJECT_ID
    /\ pret.val.type = "pair" => pret.val.core = pret.val.bot

\* C38 witness: two projects were created, one was switched to and the
\* other deleted, and get-active has returned the same dict from both stores.
C38_Witness ==
    /\ nextProject = 3
    /\ Cardinality(DOMAIN PROJECTS) = 1
    /\ Cardinality(DOMAIN BOT_PROJECTS) = 1
    /\ ACTIVE_PROJECT_ID \in DOMAIN PROJECTS
    /\ pret.op = "get_active_project"
    /\ pret.val.type = "pair"
    /\ pret.val.core.type = "dict"
    /\ pret.val.bot = pret.val.core

(* ------------------ claims on the shared project state ---------------- *)

\* C39: the project map and the active pointer are one state for every
\* user and conversation: no step of a turn but the execution of a tool
\* changes them, so a new turn of any user on any conversation starts from
\* what the turns before it left, and list_projects, get_project_details and
\* get_active_project return to it what that one state holds.
C39_ProjectStateIsShared ==
    [][/\ pc # "execute"
            => /\ PROJECTS' = PROJECTS
               /\ ACTIVE_PROJECT_ID' = ACTIVE_PROJECT_ID
       /\ (pc = "execute" /\ pc' = "record_result")
            => /\ local.function_name = "list_projects"
                    => local'.result = ListText(PROJECTS, ACTIVE_PROJECT_ID)
                       \/ (PROJECTS = EmptyDict /\ local'.result = None)
               /\ local.function_name = "get_active_project"
                    => IF ACTIVE_PROJECT_ID \in DOMAIN PROJECTS
                       THEN local'.result =
                                DetailsDict(ACTIVE_PROJECT_ID,
                                            PROJECTS[ACTIVE_PROJECT_ID], TRUE)
                       ELSE local'.result = None
               /\ local.function_name = "get_project_details"
                    => \/ /\ local.function_args.project_id \notin DOMAIN PROJECTS
                          /\ local'.result = None
                       \/ /\ local.function_args.project_id \in DOMAIN PROJECTS
                          /\ local'.result.id = local.function_args.project_id]_vars

\* C39 witness: a turn of one user created project 1 in conversation 1, and
\* list_projects, called in a turn of another user on conversation 2, has
\* returned a list that holds project 1.
C39_Witness ==
    /\ pc = "record_result"
    /\ turns = 2
    /\ local.conversation_id = 2
    /\ 1 \in DOMAIN disk
    /\ disk[1].user_id # local.user_id
    /\ \E k \in DOMAIN disk[1].messages :
          /\ "result" \in DOMAIN disk[1].messages[k].metadata
          /\ disk[1].messages[k].metadata.result = IdText(1)
    /\ local.function_name = "list_projects"
    /\ local.result # None
    /\ local.result.items[1].id = 1

(* ------------------ claims on two stores over one directory ----------- *)

\* the role and content of every message of a persisted record
Persisted(c) ==
    [i \in 1 .. Len(disk[c].messages) |->
        [role |-> disk[c].messages[i].role, content |-> disk[c].messages[i].content]]

\* C40: with two history stores over one directory, once store A has cached
\* conversation c, an add_message through store B leaves what
\* A.get_messages(c) returns as it was, and an add_message through A rewrites
\* the persisted record as A's copy with the new message appended, whatever
\* B had written to it.
C40_CachedCopyIsNeverReread ==
    [][\A c \in DOMAIN cache["A"], a \in AddArgs :
          /\ AddMessage("B", c, a[1], a[2])
                => GetMessagesResult("A", c)' = GetMessagesResult("A", c)
          /\ AddMessage("A", c, a[1], a[2])
                => Persisted(c)' =
                      Append(GetMessagesResult("A", c),
                             [role |-> RoleValue(StoredRole(a[1])), content |-> a[2]])]_vars

\* C40 witness: A created and cached c, B added a message to c, then A added
\* another: the record holds A's message alone, B's cache still holds B's
\* message, and A.get_messages(c) does not return it.
C40_Witness ==
    \E c \in (DOMAIN cache["A"]) \cap (DOMAIN cache["B"]) :
        /\ Len(calls[c]) = 2
        /\ Persisted(c) = <<calls[c][2]>>
        /\ GetMessagesResult("B", c) = <<calls[c][1]>>
        /\ GetMessagesResult("A", c) = <<calls[c][2]>>
        /\ calls[c][1] # calls[c][2]

====
